---------------------------- MODULE Spec2Model ----------------------------
(***************************************************************************)
(* A model of the Matiria compile-and-execute core: the compile pipeline   *)
(* (mtr_compile: parse, validate, emit), the jump patching of the emitter, *)
(* the block analysis of the validator and the stack machine (mtr_call,    *)
(* mtr_execute).                                                           *)
(***************************************************************************)
EXTENDS Integers, Naturals, Sequences, FiniteSets, TLC

VARIABLES
    source,     \* compile: the top-level elements of the source text
    cpc,        \* compile: position inside mtr_compile
    parser,     \* compile: struct mtr_parser (position, had_error, panic)
    ast,        \* compile: the statements of the top-level block
    validator,  \* compile: the global validator of mtr_validate
    ec,         \* compile: enum mtr_exit_code returned by mtr_compile
    stages,     \* compile: the stages entered so far, in order
    package     \* compile: names inserted into the package by the emitter

compileVars == <<source, cpc, parser, ast, validator, ec, stages, package>>

VARIABLES
    engine,     \* vm: struct mtr_engine (stack, stack_top), the object heap and
                \*     whether exit(-1) was called
    calls,      \* vm: the activations of mtr_call on the host stack
    vpc,        \* vm: position inside mtr_execute
    vret,       \* vm: the value mtr_execute returned
    pkg,        \* vm: struct mtr_package, the callables in registration order
    last,       \* vm: the instruction executed last, its operand and its frame
    fuel        \* vm: number of instructions the chunks still hold

vmVars == <<engine, calls, vpc, vret, pkg, last, fuel>>

VARIABLES
    chunk,      \* emitter: struct mtr_chunk of the function being written
    written     \* emitter: the statements written to chunk so far

emitVars == <<chunk, written>>

VARIABLES
    fn,         \* one function: struct mtr_function_decl, its body a tree
    bpc,        \* where that function is: parsed, validated, written, running, ...
    run,        \* mtr_call running the function's chunk: ip, frame
    seen,       \* history: stack_top when ip last came to each offset
    ended       \* history: the block whose POP_V ran last

blockVars == <<fn, bpc, run, seen, ended>>

VARIABLES
    scopes,     \* validator: the chain of struct validator, innermost last
    closures,   \* validator: upvalues of each struct mtr_closure_decl met
    prim,       \* validator: the primary analysed last, and where its symbol is
    spc,        \* validator: where the walk is
    vok,        \* validator: no statement has failed analysis so far
    vsteps      \* validator: statements and expressions analysed so far

scopeVars == <<scopes, closures, prim, spc, vok, vsteps>>

VARIABLES
    scanner,    \* parser: the token types the scanner returns, in order;
                \*         scanner: struct mtr_scanner on the bytes of its source
    mtr_parser, \* parser: struct mtr_parser and the number of reports
    ppc,        \* parser: where mtr_parse is; scanner: scanning or ended
    plast,      \* parser: the helper the last step has called;
                \*         scanner: the token returned last
    pfrom,      \* parser: the token and the error flag that step started from;
                \*         scanner: the token returned before the last
    ploop       \* parser: the list being parsed and the elements it has so far

parseVars == <<scanner, mtr_parser, ppc, plast, pfrom, ploop>>

vars == <<compileVars, vmVars, emitVars, blockVars, scopeVars, parseVars>>

(***************************************************************************)
(* Bounds of the model.                                                    *)
(***************************************************************************)
MaxDecls == 3

Names == {"main", "f"}

Last(s) == s[Len(s)]

(***************************************************************************)
(* COMPILE PIPELINE                                                        *)
(*                                                                         *)
(* The source is a sequence of top-level elements.  An element is          *)
(*   fn    a function declaration `fn name(...) ... { ... }`;              *)
(*         syn = "ok"    it parses without error,                          *)
(*         syn = "err"   a statement of its body has a syntax error; the   *)
(*                       synchronize of block() has cleared panic,         *)
(*         syn = "panic" its parameter list has a syntax error and panic   *)
(*                       is still set when func_decl returns;              *)
(*         sem = "ok"    it passes analyze_fn,                             *)
(*         sem = "bad_sig"  a parameter fails analyze_variable or a        *)
(*                       non-Void body does not end in return,             *)
(*         sem = "bad_body" a statement of its body fails analysis;        *)
(*   type  form = "struct": `type name := { Int x }`,                      *)
(*         form = "null":   `type name := ;` (type() returns NULL);        *)
(*   tok   a stray token that starts no declaration; sync tells whether it *)
(*         is one of the tokens synchronize stops at.                      *)
(***************************************************************************)
FnElements ==
    [k : {"fn"}, name : Names, syn : {"ok"}, sem : {"ok", "bad_sig", "bad_body"}]
      \cup [k : {"fn"}, name : Names, syn : {"err", "panic"}, sem : {"ok"}]

TypeElements == [k : {"type"}, name : Names, form : {"struct", "null"}]

TokElements == [k : {"tok"}, sync : BOOLEAN]

Elements == FnElements \cup TypeElements \cup TokElements

SeqsUpTo(S, n) == UNION {[1..m -> S] : m \in 0..n}

Sources == SeqsUpTo(Elements, MaxDecls)

\* parser->token.type == MTR_TOKEN_EOF
AtEOF(p) == p.pos > Len(source)

\* The element the current token belongs to.
Cur(p) == source[p.pos]

\* parser_error: had_error and panic are set (the report is not modelled).
parser_error(p) == [p EXCEPT !.had_error = TRUE, !.panic = TRUE]

\* Is the current token one synchronize returns at?  A struct declaration
\* holds such a token ('{') in its interior, a function starts with one (fn).
RECURSIVE SyncFrom(_, _)
SyncFrom(p, src) ==
    IF p.pos > Len(src) THEN p
    ELSE LET e == src[p.pos] IN
         IF p.mid THEN p
         ELSE IF e.k = "fn" THEN p
         ELSE IF e.k = "tok" /\ e.sync THEN p
         ELSE IF e.k = "type" /\ e.form = "struct" THEN [p EXCEPT !.mid = TRUE]
         ELSE SyncFrom([p EXCEPT !.pos = p.pos + 1], src)

\* synchronize: nothing unless panic; clears panic and advances to the next
\* synchronisation token or the end of input.
synchronize(p) ==
    IF ~p.panic THEN p
    ELSE SyncFrom([p EXCEPT !.panic = FALSE], source)

\* func_decl / type on a whole element: the parser state after it.
ParseElement(p, e) ==
    LET q == [p EXCEPT !.pos = p.pos + 1] IN
    IF e.k = "fn" THEN
        IF e.syn = "ok" THEN q
        ELSE IF e.syn = "err" THEN [q EXCEPT !.had_error = TRUE]
        ELSE parser_error(q)
    ELSE IF e.form = "null" THEN parser_error(q)
    ELSE q

\* Does global_declaration return NULL for this element?
ReturnsNull(e) == e.k = "type" /\ e.form = "null"

\* Does global_declaration fall out of its switch (no fn, no type)?
IsStray(p) == p.mid \/ Cur(p).k = "tok"

\* mtr_compile after mtr_parse: the check of parser.had_error.
AfterParseMut(had_error) == "validate_load"
AfterParse(had_error) == IF had_error THEN "ret" ELSE "validate_load"

\* mtr_compile after mtr_validate: the check of all_ok.
AfterValidate(all_ok) == IF all_ok THEN "emit" ELSE "ret"

CompileStart ==
    /\ source \in Sources
    /\ cpc = "parse"
    /\ parser = [pos |-> 1, mid |-> FALSE, had_error |-> FALSE, panic |-> FALSE]
    /\ ast = <<>>
    /\ validator = [symbols |-> {}, i |-> 1, all_ok |-> TRUE, done |-> FALSE]
    /\ ec = "MTR_OK"
    /\ stages = <<"parse">>
    /\ package = <<>>

\* The compile pipeline at rest, while other parts of the program run.
CompileIdle ==
    /\ source = <<>>
    /\ cpc = "idle"
    /\ parser = [pos |-> 1, mid |-> FALSE, had_error |-> FALSE, panic |-> FALSE]
    /\ ast = <<>>
    /\ validator = [symbols |-> {}, i |-> 1, all_ok |-> TRUE, done |-> FALSE]
    /\ ec = "MTR_OK"
    /\ stages = <<>>
    /\ package = <<>>

\* One iteration of the loop of mtr_parse on a fn or type declaration.
ParseDeclaration ==
    /\ cpc = "parse"
    /\ ~AtEOF(parser)
    /\ ~IsStray(parser)
    /\ LET e == Cur(parser)
           p == ParseElement(parser, e) IN
       IF ReturnsNull(e)
       THEN /\ parser' = p
            /\ cpc' = "parsed"
            /\ ast' = ast
       ELSE /\ parser' = synchronize(p)
            /\ ast' = Append(ast, e)
            /\ cpc' = cpc
    /\ UNCHANGED <<source, validator, ec, stages, package, vmVars, emitVars, blockVars, scopeVars, parseVars>>

\* global_declaration on any other token: parser_error, then exit(-1).
ParseStrayExit ==
    /\ cpc = "parse"
    /\ ~AtEOF(parser)
    /\ IsStray(parser)
    /\ parser' = parser_error(parser)
    /\ cpc' = "exited"
    /\ UNCHANGED <<source, ast, validator, ec, stages, package, vmVars, emitVars, blockVars, scopeVars, parseVars>>

\* The loop of mtr_parse ends at MTR_TOKEN_EOF.
ParseEOF ==
    /\ cpc = "parse"
    /\ AtEOF(parser)
    /\ cpc' = "parsed"
    /\ UNCHANGED <<source, parser, ast, validator, ec, stages, package, vmVars, emitVars, blockVars, scopeVars, parseVars>>

\* mtr_compile: if (parser.had_error) { ec = MTR_PARSER_ERROR; goto ret; }
CompileAfterParse ==
    /\ cpc = "parsed"
    /\ cpc' = AfterParse(parser.had_error)
    /\ IF cpc' = "ret"
       THEN ec' = "MTR_PARSER_ERROR" /\ stages' = stages
       ELSE ec' = ec /\ stages' = Append(stages, "validate")
    /\ UNCHANGED <<source, parser, ast, validator, package, vmVars, emitVars, blockVars, scopeVars, parseVars>>

\* add_symbol on the global validator: fails on a name already present.
add_symbol(v, name) ==
    IF name \in v.symbols THEN [ok |-> FALSE, v |-> v]
    ELSE [ok |-> TRUE, v |-> [v EXCEPT !.symbols = v.symbols \cup {name}]]

\* mtr_validate, first loop: all_ok = load_global(s, &validator).
ValidateLoadGlobal ==
    /\ cpc = "validate_load"
    /\ validator.i <= Len(ast)
    /\ LET r == add_symbol(validator, ast[validator.i].name) IN
       validator' = [r.v EXCEPT !.all_ok = r.ok, !.i = validator.i + 1]
    /\ UNCHANGED <<source, cpc, parser, ast, ec, stages, package, vmVars, emitVars, blockVars, scopeVars, parseVars>>

ValidateLoadDone ==
    /\ cpc = "validate_load"
    /\ validator.i > Len(ast)
    /\ validator' = [validator EXCEPT !.i = 1]
    /\ cpc' = "validate_analyze"
    /\ UNCHANGED <<source, parser, ast, ec, stages, package, vmVars, emitVars, blockVars, scopeVars, parseVars>>

\* global_analysis: the statement, or NULL when its analysis failed.
\* analyze_function_no_validator reads stmt->body->type after storing the
\* checked body: with a NULL body that read is undefined; the build either
\* stops there or goes on to sanitize_stmt(stmt, false).
AnalysisOutcomes(e) ==
    IF e.k = "type" THEN {"stmt"}
    ELSE IF e.sem = "ok" THEN {"stmt"}
    ELSE IF e.sem = "bad_sig" THEN {"null"}
    ELSE {"null", "crash"}

\* mtr_validate, second loop: all_ok = checked != NULL && all_ok.
ValidateGlobalAnalysis ==
    /\ cpc = "validate_analyze"
    /\ validator.i <= Len(ast)
    /\ \E o \in AnalysisOutcomes(ast[validator.i]) :
         IF o = "crash"
         THEN cpc' = "crashed" /\ validator' = validator
         ELSE /\ cpc' = cpc
              /\ validator' = [validator EXCEPT
                                 !.all_ok = (o = "stmt") /\ validator.all_ok,
                                 !.i = validator.i + 1]
    /\ UNCHANGED <<source, parser, ast, ec, stages, package, vmVars, emitVars, blockVars, scopeVars, parseVars>>

\* mtr_validate returns all_ok; mtr_compile: if (!all_ok) ec = MTR_TYPE_ERROR.
CompileAfterValidate ==
    /\ cpc = "validate_analyze"
    /\ validator.i > Len(ast)
    /\ cpc' = AfterValidate(validator.all_ok)
    /\ validator' = [validator EXCEPT !.done = TRUE, !.i = 1]
    /\ IF cpc' = "ret"
       THEN ec' = "MTR_TYPE_ERROR" /\ stages' = stages
       ELSE ec' = ec /\ stages' = Append(stages, "emit")
    /\ UNCHANGED <<source, parser, ast, package, vmVars, emitVars, blockVars, scopeVars, parseVars>>

\* mtr_compile: the loop of write_bytecode over the top-level statements.
EmitStatement ==
    /\ cpc = "emit"
    /\ validator.i <= Len(ast)
    /\ package' = Append(package, ast[validator.i].name)
    /\ validator' = [validator EXCEPT !.i = validator.i + 1]
    /\ UNCHANGED <<source, cpc, parser, ast, ec, stages, vmVars, emitVars, blockVars, scopeVars, parseVars>>

EmitDone ==
    /\ cpc = "emit"
    /\ validator.i > Len(ast)
    /\ cpc' = "ret"
    /\ UNCHANGED <<source, parser, ast, validator, ec, stages, package, vmVars, emitVars, blockVars, scopeVars, parseVars>>

\* ret: mtr_delete_ast(&ast); return ec;
CompileReturn ==
    /\ cpc = "ret"
    /\ cpc' = "returned"
    /\ ast' = <<>>
    /\ UNCHANGED <<source, parser, validator, ec, stages, package, vmVars, emitVars, blockVars, scopeVars, parseVars>>

(***************************************************************************)
(* VIRTUAL MACHINE                                                         *)
(*                                                                         *)
(* A value is the 8-byte union mtr_value; the model tags it with the field *)
(* that was written.  NIL is the NULL object.  Objects live in engine.heap *)
(* and are referred to by their index.                                     *)
(***************************************************************************)
MTR_MAX_STACK == 4

MaxInt == 1

MaxObjs == 2

MaxSteps == 5

MaxObjSteps == 6

MaxFns == 2

IntVals == -1..MaxInt

MTR_INT_VAL(n) == [t |-> "int", v |-> n]
MTR_OBJ_VAL(r) == [t |-> "obj", v |-> r]
MTR_NIL == [t |-> "obj", v |-> 0]

\* What a read outside an array or outside the stack yields.
Junk == [t |-> "junk", v |-> 0]

IsInt(x) == x.t = "int"
IsObj(x) == x.t = "obj" /\ x.v # 0

\* A store into the stack array; a store outside it shows as a new index.
Write(stack, i, value) ==
    [j \in DOMAIN stack \cup {i} |-> IF j = i THEN value ELSE stack[j]]

Read(stack, i) == IF i \in DOMAIN stack THEN stack[i] ELSE Junk

\* mtr_push: fatal on a full stack, else *(stack_top++) = value.
mtr_pushMut(e, value) ==
    [e EXCEPT !.stack = Write(e.stack, e.stack_top, value),
              !.stack_top = e.stack_top + 1]
mtr_push(e, value) ==
    IF e.stack_top = MTR_MAX_STACK
    THEN [e EXCEPT !.fatal = TRUE]
    ELSE [e EXCEPT !.stack = Write(e.stack, e.stack_top, value),
                   !.stack_top = e.stack_top + 1]

\* mtr_pop: *(--stack_top); the engine after it and the value read.
mtr_pop(e) == [e EXCEPT !.stack_top = e.stack_top - 1]
Top(e) == Read(e.stack, e.stack_top - 1)

\* peek(engine, distance)
peek(e, distance) == Read(e.stack, e.stack_top - distance - 1)

\* A new heap object; its reference is its index.
Alloc(e, obj) == [e EXCEPT !.heap = Append(e.heap, obj)]
NewRef(e) == Len(e.heap) + 1

\* mtr_reinterpret_cast(size_t, i): size_t is scaled to 30 bits here, the
\* integers of the model being 32 bits wide.
SizeT(i) == i % (2^30)

\* array->elements[index]
ElementAt(elements, index) ==
    IF index + 1 \in DOMAIN elements THEN elements[index + 1] ELSE Junk

\* mtr_map_get: the value of the key, NIL when the key is absent.
mtr_map_get(map, key) ==
    IF key \in DOMAIN map.table THEN map.table[key] ELSE MTR_NIL

\* mtr_map_insert: inserts the key or overwrites its value.
mtr_map_insert(map, key, value) ==
    [map EXCEPT !.table =
        [k \in DOMAIN map.table \cup {key} |->
            IF k = key THEN value ELSE map.table[k]]]

\* mtr_array_append
mtr_array_append(array, value) ==
    [array EXCEPT !.elements = Append(array.elements, value)]

mtr_new_array == [type |-> "MTR_OBJ_ARRAY", elements |-> <<>>]
mtr_new_map == [type |-> "MTR_OBJ_MAP", table |-> <<>>]
mtr_new_string(length) == [type |-> "MTR_OBJ_STRING", length |-> length]
mtr_new_function(body) == [type |-> "MTR_OBJ_FUNCTION", chunk |-> body]

(***************************************************************************)
(* The instructions of mtr_call, each as the engine after it.  frame is    *)
(* the frame of the running activation.                                    *)
(***************************************************************************)
\* MTR_OP_INT, MTR_OP_TRUE, MTR_OP_FALSE
OP_INT(e, value) == mtr_push(e, MTR_INT_VAL(value))

\* MTR_OP_NIL
OP_NIL(e) == mtr_push(e, MTR_NIL)

\* MTR_OP_STRING_LITERAL
OP_STRING_LITERAL(e, length) ==
    mtr_push(Alloc(e, mtr_new_string(length)), MTR_OBJ_VAL(NewRef(e)))

\* MTR_OP_ARRAY_LITERAL: count pops, each appended to the new array.
RECURSIVE PopInto(_, _, _)
PopInto(e, array, count) ==
    IF count = 0 THEN [e |-> e, array |-> array]
    ELSE PopInto(mtr_pop(e), mtr_array_append(array, Top(e)), count - 1)

OP_ARRAY_LITERAL(e, count) ==
    LET r == PopInto(e, mtr_new_array, count) IN
    mtr_push(Alloc(r.e, r.array), MTR_OBJ_VAL(NewRef(e)))

\* MTR_OP_MAP_LITERAL: count times pop the value, pop the key, insert.
RECURSIVE PopEntries(_, _, _)
PopEntries(e, map, count) ==
    IF count = 0 THEN [e |-> e, map |-> map]
    ELSE LET value == Top(e)
             key == peek(e, 1) IN
         PopEntries(mtr_pop(mtr_pop(e)), mtr_map_insert(map, key, value), count - 1)

OP_MAP_LITERAL(e, count) ==
    LET r == PopEntries(e, mtr_new_map, count) IN
    mtr_push(Alloc(r.e, r.map), MTR_OBJ_VAL(NewRef(e)))

\* MTR_OP_GET: push(engine, frame[index])
OP_GETMut(e, frame, index) == mtr_push(e, Read(e.stack, index))
OP_GET(e, frame, index) == mtr_push(e, Read(e.stack, frame + index))

\* MTR_OP_SET: frame[index] = pop(engine)
OP_SET(e, frame, index) ==
    LET value == Top(e)
        p == mtr_pop(e) IN
    [p EXCEPT !.stack = Write(p.stack, frame + index, value)]

\* The bounds check of MTR_OP_GET_O and MTR_OP_SET_O on an array.
OutOfBoundsMut(i, size) == i >= size
OutOfBounds(i, size) == SizeT(i) >= size

\* MTR_OP_GET_O (INDEX_GET): pops the key, then the object.
OP_GET_O(e, frame) ==
    LET key == Top(e)
        ref == peek(e, 1).v
        object == e.heap[ref]
        p == mtr_pop(mtr_pop(e)) IN
    IF object.type = "MTR_OBJ_STRING" THEN [p EXCEPT !.fatal = TRUE]
    ELSE IF object.type = "MTR_OBJ_ARRAY" THEN
        IF OutOfBounds(key.v, Len(object.elements))
        THEN [p EXCEPT !.fatal = TRUE]
        ELSE mtr_push(p, ElementAt(object.elements, key.v))
    ELSE IF object.type = "MTR_OBJ_MAP" THEN mtr_push(p, mtr_map_get(object, key))
    ELSE [p EXCEPT !.fatal = TRUE]

\* MTR_OP_SET_O (INDEX_SET): pops the key, the object, then the value.
StoreElementMut(object, index, value) ==
    [object EXCEPT !.elements = Append(object.elements, value)]
StoreElement(object, index, value) ==
    [object EXCEPT !.elements[index + 1] = value]

OP_SET_O(e, frame) ==
    LET key == Top(e)
        ref == peek(e, 1).v
        val == peek(e, 2)
        object == e.heap[ref]
        p == mtr_pop(mtr_pop(mtr_pop(e))) IN
    IF object.type = "MTR_OBJ_STRING" THEN [p EXCEPT !.fatal = TRUE]
    ELSE IF object.type = "MTR_OBJ_ARRAY" THEN
        IF OutOfBounds(key.v, Len(object.elements))
        THEN [p EXCEPT !.fatal = TRUE]
        ELSE [p EXCEPT !.heap[ref] = StoreElement(object, key.v, val)]
    ELSE IF object.type = "MTR_OBJ_MAP"
        THEN [p EXCEPT !.heap[ref] = mtr_map_insert(object, key, val)]
    ELSE p

\* MTR_OP_JMP_Z: pops the condition; the jump itself moves only ip.
OP_JMP_Z(e) == mtr_pop(e)

\* MTR_OP_POP
OP_POP(e) == mtr_pop(e)

\* MTR_OP_POP_V: stack_top -= count
OP_POP_V(e, count) == [e EXCEPT !.stack_top = e.stack_top - count]

\* MTR_OP_RETURN: res = pop; stack_top = frame; push(res)
OP_RETURN(e, frame) ==
    LET res == Top(e) IN
    mtr_push([e EXCEPT !.stack_top = frame], res)

\* The u8 parameter argc of mtr_call.
U8(n) == n % 256

\* mtr_call at entry: frame = engine->stack_top - argc
FrameAtEntry(e, argc) == e.stack_top - U8(argc)

(***************************************************************************)
(* mtr_execute and the activations of mtr_call.  The chunk a callable runs *)
(* is an input of the machine: each step executes one instruction the      *)
(* chunk may hold next, restricted to instructions whose operands are on   *)
(* the stack of the running activation.                                    *)
(***************************************************************************)
FnNames == {"main", "f", "g"}

Injective(s) == \A i, j \in 1..Len(s) : s[i] = s[j] => i = j

Packages == {s \in SeqsUpTo(FnNames, MaxFns) : Injective(s)}

\* mtr_package_get_function_by_name: the index of the callable, 0 for NULL.
mtr_package_get_function_by_name(package_, name) ==
    IF \E i \in 1..Len(package_) : package_[i] = name
    THEN CHOOSE i \in 1..Len(package_) : package_[i] = name
    ELSE 0

EmptyStack == [i \in 0..(MTR_MAX_STACK - 1) |-> Junk]

NoInstruction == [op |-> "none", arg |-> 0, frame |-> 0, depth |-> 0]

VMIdle ==
    /\ engine = [stack |-> EmptyStack, stack_top |-> 0, heap |-> <<>>, fatal |-> FALSE]
    /\ calls = <<>>
    /\ vpc = "idle"
    /\ vret = 0
    /\ pkg = <<>>
    /\ last = NoInstruction
    /\ fuel = 0

\* Before mtr_execute: the callables of the package are heap objects.
VMStart ==
    /\ pkg \in Packages
    /\ engine = [stack |-> EmptyStack, stack_top |-> 0,
                 heap |-> [i \in 1..Len(pkg) |-> mtr_new_function(pkg[i])],
                 fatal |-> FALSE]
    /\ calls = <<>>
    /\ vpc = "execute"
    /\ vret = 0
    /\ last = NoInstruction

\* mtr_execute on the result o of the lookup of main: NULL returns -1.
ExecuteEntryMut(o) == [vpc |-> "push", vret |-> 0]
ExecuteEntry(o) ==
    IF o = 0 THEN [vpc |-> "returned", vret |-> -1]
    ELSE [vpc |-> "push", vret |-> 0]

\* mtr_execute: stack_top = stack; look main up; return -1 when it is NULL.
ExecuteLookup ==
    /\ vpc = "execute"
    /\ LET r == ExecuteEntry(mtr_package_get_function_by_name(pkg, "main")) IN
       vpc' = r.vpc /\ vret' = r.vret
    /\ engine' = [engine EXCEPT !.stack_top = 0]
    /\ UNCHANGED <<calls, pkg, last, fuel, compileVars, emitVars, blockVars, scopeVars, parseVars>>

\* package->functions[i]: the object of the i-th callable registered.
PackageFunctionMut(i) == MTR_OBJ_VAL(Len(pkg) - i)
PackageFunction(i) == MTR_OBJ_VAL(i + 1)

\* mtr_execute: for (i = 0; i < package->count; ++i) push(functions[i]).
\* The loop index equals stack_top, the stack being empty before the loop.
ExecutePush ==
    /\ vpc = "push"
    /\ engine.stack_top < Len(pkg)
    /\ engine' = mtr_push(engine, PackageFunction(engine.stack_top))
    /\ vpc' = IF engine'.fatal THEN "exited" ELSE vpc
    /\ UNCHANGED <<calls, vret, pkg, last, fuel, compileVars, emitVars, blockVars, scopeVars, parseVars>>

\* mtr_execute: mtr_call(engine, f->chunk, package->count)
ExecuteCall ==
    /\ vpc = "push"
    /\ engine.stack_top >= Len(pkg)
    /\ calls' = <<[frame |-> FrameAtEntry(engine, Len(pkg)), argc |-> U8(Len(pkg)),
                   fn |-> "main"]>>
    /\ vpc' = "running"
    /\ UNCHANGED <<engine, vret, pkg, last, fuel, compileVars, emitVars, blockVars, scopeVars, parseVars>>

Frame == Last(calls).frame

\* Values of the running activation: stack_top - frame.
Height == engine.stack_top - Frame

Running == vpc = "running" /\ calls # <<>> /\ fuel > 0

\* One instruction of mtr_call has run; exit(-1) ends the process.
Executed(op, arg, e) ==
    /\ engine' = e
    /\ last' = [op |-> op, arg |-> arg, frame |-> Frame,
                depth |-> Len(calls)]
    /\ fuel' = fuel - 1
    /\ vpc' = IF e.fatal THEN "exited" ELSE vpc
    /\ UNCHANGED <<vret, pkg, compileVars, emitVars, blockVars, scopeVars, parseVars>>

VmInt ==
    /\ Running
    /\ \E value \in IntVals : Executed("INT", value, OP_INT(engine, value))
    /\ UNCHANGED calls

\* MTR_OP_FALSE, MTR_OP_TRUE
VmBool ==
    /\ Running
    /\ \E value \in {0, 1} : Executed("BOOL", value, OP_INT(engine, value))
    /\ UNCHANGED calls

CanAlloc == Len(engine.heap) < Len(pkg) + MaxObjs

VmStringLiteral ==
    /\ Running /\ CanAlloc
    /\ Executed("STRING_LITERAL", 1, OP_STRING_LITERAL(engine, 1))
    /\ UNCHANGED calls

VmArrayLiteral ==
    /\ Running /\ CanAlloc
    /\ \E count \in 0..2 :
         /\ count <= Height
         /\ \A d \in 0..(count - 1) : IsInt(peek(engine, d))
         /\ Executed("ARRAY_LITERAL", count, OP_ARRAY_LITERAL(engine, count))
    /\ UNCHANGED calls

VmMapLiteral ==
    /\ Running /\ CanAlloc
    /\ \E count \in 0..1 :
         /\ 2 * count <= Height
         /\ \A d \in 0..(2 * count - 1) : IsInt(peek(engine, d))
         /\ Executed("MAP_LITERAL", count, OP_MAP_LITERAL(engine, count))
    /\ UNCHANGED calls

VmGet ==
    /\ Running
    /\ \E index \in 0..(Height - 1) :
         Executed("GET", index, OP_GET(engine, Frame, index))
    /\ UNCHANGED calls

VmSet ==
    /\ Running
    /\ \E index \in 0..(Height - 2) :
         Executed("SET", index, OP_SET(engine, Frame, index))
    /\ UNCHANGED calls

VmIndexGet ==
    /\ Running
    /\ Height >= 2
    /\ IsInt(peek(engine, 0)) /\ IsObj(peek(engine, 1))
    /\ Executed("INDEX_GET", [ref |-> peek(engine, 1).v, key |-> peek(engine, 0).v],
                OP_GET_O(engine, Frame))
    /\ UNCHANGED calls

VmIndexSet ==
    /\ Running
    /\ Height >= 3
    /\ IsInt(peek(engine, 0)) /\ IsObj(peek(engine, 1)) /\ IsInt(peek(engine, 2))
    /\ Executed("INDEX_SET", [ref |-> peek(engine, 1).v, key |-> peek(engine, 0).v],
                OP_SET_O(engine, Frame))
    /\ UNCHANGED calls

VmJmpZ ==
    /\ Running
    /\ Height >= 1
    /\ IsInt(peek(engine, 0))
    /\ Executed("JMP_Z", 0, OP_JMP_Z(engine))
    /\ UNCHANGED calls

VmPop ==
    /\ Running
    /\ Height >= 1
    /\ Executed("POP", 0, OP_POP(engine))
    /\ UNCHANGED calls

VmPopV ==
    /\ Running
    /\ \E count \in 0..Height : Executed("POP_V", count, OP_POP_V(engine, count))
    /\ UNCHANGED calls

IsFunction(e, x) ==
    IsObj(x) /\ x.v \in DOMAIN e.heap /\ e.heap[x.v].type = "MTR_OBJ_FUNCTION"

\* MTR_OP_CALL: pops the callable; its call() runs mtr_call(chunk, argc).
VmCall ==
    /\ Running
    /\ Len(calls) < MaxFns
    /\ Height >= 1
    /\ IsFunction(engine, peek(engine, 0))
    /\ \E argc \in 0..(Height - 1) :
         LET e == mtr_pop(engine) IN
         /\ Executed("CALL", argc, e)
         /\ calls' = Append(calls, [frame |-> FrameAtEntry(e, argc), argc |-> argc,
                                    fn |-> engine.heap[peek(engine, 0).v].chunk])

\* The activation mtr_call returns from; the last one returns to
\* mtr_execute, which returns 0.
Leave ==
    /\ calls' = SubSeq(calls, 1, Len(calls) - 1)
    /\ vpc' = IF engine'.fatal THEN "exited"
              ELSE IF Len(calls) = 1 THEN "returned" ELSE vpc
    /\ vret' = 0

\* MTR_OP_RETURN
VmReturn ==
    /\ Running
    /\ Height >= 1
    /\ engine' = OP_RETURN(engine, Frame)
    /\ last' = [op |-> "RETURN", arg |-> 0, frame |-> Frame,
                depth |-> Len(calls)]
    /\ fuel' = fuel - 1
    /\ Leave
    /\ UNCHANGED <<pkg, compileVars, emitVars, blockVars, scopeVars, parseVars>>

\* while (ip < end) ends: the chunk ran to its end without RETURN.
VmChunkEnd ==
    /\ Running
    /\ engine' = engine
    /\ last' = [op |-> "END", arg |-> 0, frame |-> Frame,
                depth |-> Len(calls)]
    /\ fuel' = fuel - 1
    /\ Leave
    /\ UNCHANGED <<pkg, compileVars, emitVars, blockVars, scopeVars, parseVars>>

(***************************************************************************)
(* THE EMITTER                                                             *)
(*                                                                         *)
(* A chunk is its size, the instructions written to it keyed by their      *)
(* offset in the bytecode, and the 16-bit words stored where jump operands *)
(* are.  A statement or an expression of type "CODE" stands for code of    *)
(* the given length that holds no jump and no block.  The fields jumps and *)
(* blocks of a chunk are history: what each jump was meant to reach, and   *)
(* where each block starts and ends.                                       *)
(***************************************************************************)
MaxStmts == 2

\* Lengths in bytes of the code taken by its length only.
CodeSizes == {1, 12, 32768}

NULL == [type |-> "NULL"]

Code(n) == [type |-> "CODE", size |-> n]

\* The parameter a of the function, a literal false, a && b and a || b.
Primary == [type |-> "MTR_EXPR_PRIMARY", index |-> 0]
Literal == [type |-> "MTR_EXPR_LITERAL"]
Binary(operator, left, right) ==
    [type |-> "MTR_EXPR_BINARY", operator |-> operator, left |-> left, right |-> right]

\* Type name;  a := e;  if c: t else o  while c: b  { ... }
Variable == [type |-> "MTR_STMT_VAR", index |-> 0]
Assignment(expression) ==
    [type |-> "MTR_STMT_ASSIGNMENT", right |-> Primary, expression |-> expression]
If(condition, then, otherwise) ==
    [type |-> "MTR_STMT_IF", condition |-> condition, then |-> then, otherwise |-> otherwise]
While(condition, body) ==
    [type |-> "MTR_STMT_WHILE", condition |-> condition, body |-> body]
Block(type, statements) ==
    [type |-> type, statements |-> statements, var_count |-> 0]

U16(n) == n % 65536

I16(n) == LET m == n % 65536 IN IF m >= 32768 THEN m - 65536 ELSE m

mtr_new_chunk ==
    [size |-> 0, ops |-> <<>>, words |-> <<>>, jumps |-> <<>>, blocks |-> <<>>,
     loops |-> <<>>, logics |-> <<>>, sites |-> <<>>,
     locals |-> <<>>]

Put(f, k, x) == [o \in DOMAIN f \cup {k} |-> IF o = k THEN x ELSE f[o]]

\* mtr_write_chunk, n times: code taken by its length.
WriteCode(c, n) == [c EXCEPT !.size = c.size + n]

\* mtr_write_chunk(op) and the operand bytes after it.
WriteOp(c, op, arg, length) ==
    [c EXCEPT !.ops = Put(c.ops, c.size, [op |-> op, arg |-> arg]),
              !.size = c.size + length]

\* *(i16*)(chunk->bytecode + offset) = where
StoreWord(c, offset, where) == [c EXCEPT !.words = Put(c.words, offset, where)]

\* write_jump: the instruction, the placeholder 0xFFFF; returns the place of
\* the placeholder as a u16.  operand is that place before the conversion.
write_jump(c, instruction) ==
    LET d == WriteOp(c, instruction, 0, 1)
        e == WriteCode(StoreWord(d, d.size, I16(65535)), 2) IN
    [chunk |-> e, site |-> U16(e.size - 2), op |-> instruction, operand |-> d.size]

\* patch_jump(chunk, i16 offset): where = chunk->size - offset - 2, stored
\* as an i16 at bytecode + offset.
patch_jump(c, site) ==
    LET offset == I16(site)
        where == I16(c.size - offset - 2) IN
    StoreWord(c, offset, where)

\* History: the jump j written by write_jump is meant to reach target.
Intend(c, j, target) ==
    [c EXCEPT !.jumps = Append(c.jumps,
        [op |-> j.op, operand |-> j.operand, target |-> target])]

\* History: the places of the parts of a loop write_while has written.
Looped(c, loop) == [c EXCEPT !.loops = Append(c.loops, loop)]

\* History: the places of the parts of an && or || write_and has written.
Shorted(c, logic) == [c EXCEPT !.logics = Append(c.logics, logic)]

\* write_loop: MTR_OP_JMP and where = offset - chunk->size - 3, as a u16.
write_loop(c, site) ==
    LET d == WriteOp(c, "JMP", 0, 1)
        where == I16(site - d.size - 3) IN
    WriteCode(StoreWord(d, d.size, where), 2)

RECURSIVE write_expr(_, _)

RECURSIVE write_and(_, _)

\* write_primary: MTR_OP_GET and the symbol's index.
write_primary(c, expr) == WriteOp(c, "GET", expr.index, 3)

\* write_literal: false, or MTR_OP_INT and the eight bytes of an integer.
write_literal(c, expr) ==
    IF "value" \in DOMAIN expr THEN WriteOp(c, "INT", expr.value, 9)
    ELSE WriteOp(c, "FALSE", 0, 1)

\* for (u8 i = 0; i < call->argc; ++i) write_expr(chunk, call->argv[i])
RECURSIVE write_args(_, _, _)
write_args(c, argv, i) ==
    IF i > Len(argv) THEN c
    ELSE write_args(write_expr(c, argv[i]), argv, i + 1)

\* The same loop from the last argument to the first.
RECURSIVE write_args_reversed(_, _, _)
write_args_reversed(c, argv, i) ==
    IF i < 1 THEN c
    ELSE write_args_reversed(write_expr(c, argv[i]), argv, i - 1)

\* write_array_literal: the expressions from the last to the first, then
\* MTR_OP_ARRAY_LITERAL and the count.
RECURSIVE write_elements(_, _, _)
write_elements(c, expressions, i) ==
    IF i >= Len(expressions) THEN c
    ELSE LET actual_index == U8(Len(expressions) - i - 1) IN
         write_elements(write_expr(c, expressions[actual_index + 1]), expressions, i + 1)

write_array_literalMut(c, array) ==
    WriteOp(write_args(c, array.expressions, 1),
            "ARRAY_LITERAL", U8(Len(array.expressions)), 2)
write_array_literal(c, array) ==
    WriteOp(write_elements(c, array.expressions, 0),
            "ARRAY_LITERAL", U8(Len(array.expressions)), 2)

\* write_map_literal: the entries from the last to the first, of each the
\* key and then the value, then MTR_OP_MAP_LITERAL and the count.
RECURSIVE write_entries(_, _, _)
write_entries(c, entries, i) ==
    IF i >= Len(entries) THEN c
    ELSE LET actual_index == U8(Len(entries) - i - 1)
             e == entries[actual_index + 1] IN
         write_entries(write_expr(write_expr(c, e.key), e.value), entries, i + 1)

write_map_literal(c, map) ==
    WriteOp(write_entries(c, map.entries, 0), "MAP_LITERAL", U8(Len(map.entries)), 2)

\* History: where write_call has written the callable and MTR_OP_CALL.
Sited(c, site) == [c EXCEPT !.sites = Append(c.sites, site)]

\* write_call: the arguments, the callable, MTR_OP_CALL and argc.
write_callMut(c, call) ==
    LET c1 == write_args_reversed(c, call.argv, Len(call.argv))
        c2 == write_expr(c1, call.callable)
        c3 == WriteOp(c2, "CALL", U8(Len(call.argv)), 2) IN
    Sited(c3, [start |-> c.size, callable |-> c1.size, call |-> c2.size,
               end |-> c3.size, expr |-> call])
write_call(c, call) ==
    LET c1 == write_args(c, call.argv, 1)
        c2 == write_expr(c1, call.callable)
        c3 == WriteOp(c2, "CALL", U8(Len(call.argv)), 2) IN
    Sited(c3, [start |-> c.size, callable |-> c1.size, call |-> c2.size,
               end |-> c3.size, expr |-> call])

\* write_and, write_or
write_and(c, expr) ==
    LET c1 == write_expr(c, expr.left)
        j == write_jump(c1, expr.operator)
        c2 == write_expr(j.chunk, expr.right) IN
    Shorted(Intend(patch_jump(c2, j.site), j, c2.size),
            [op |-> expr.operator, start |-> c.size, jump |-> c1.size,
             right |-> j.chunk.size, end |-> c2.size, expr |-> expr])

\* BINARY_OP of write_binary: the opcode for Int or for Float operands,
\* and for any other type of operands a warning and no opcode.
BINARY_OP(c, op, data) ==
    IF data = "MTR_DATA_INT" THEN WriteOp(c, op \o "_I", 0, 1)
    ELSE IF data = "MTR_DATA_FLOAT" THEN WriteOp(c, op \o "_F", 0, 1)
    ELSE c

\* write_binary: && and || are short-circuited; else the operands, the
\* opcode and, for <=, >= and !=, MTR_OP_NOT.
write_binary(c, expr) ==
    IF expr.operator \in {"AND", "OR"} THEN write_and(c, expr)
    ELSE LET d == write_expr(write_expr(c, expr.left), expr.right)
             t == expr.data IN
         CASE expr.operator = "PLUS" -> BINARY_OP(d, "ADD", t)
           [] expr.operator = "MINUS" -> BINARY_OP(d, "SUB", t)
           [] expr.operator = "STAR" -> BINARY_OP(d, "MUL", t)
           [] expr.operator = "SLASH" -> BINARY_OP(d, "DIV", t)
           [] expr.operator = "LESS" -> BINARY_OP(d, "LESS", t)
           [] expr.operator = "LESS_EQUAL" ->
                WriteOp(BINARY_OP(d, "GREATER", t), "NOT", 0, 1)
           [] expr.operator = "GREATER" -> BINARY_OP(d, "GREATER", t)
           [] expr.operator = "GREATER_EQUAL" ->
                WriteOp(BINARY_OP(d, "LESS", t), "NOT", 0, 1)
           [] expr.operator = "EQUAL" -> BINARY_OP(d, "EQUAL", t)
           [] expr.operator = "BANG_EQUAL" ->
                WriteOp(BINARY_OP(d, "EQUAL", t), "NOT", 0, 1)
           [] OTHER -> d

write_expr(c, expr) ==
    CASE expr.type = "CODE" -> WriteCode(c, expr.size)
      [] expr.type = "MTR_EXPR_PRIMARY" -> write_primary(c, expr)
      [] expr.type = "MTR_EXPR_LITERAL" -> write_literal(c, expr)
      [] expr.type = "MTR_EXPR_BINARY" -> write_binary(c, expr)
      [] expr.type = "MTR_EXPR_CALL" -> write_call(c, expr)
      [] expr.type = "MTR_EXPR_ARRAY_LITERAL" -> write_array_literal(c, expr)
      [] expr.type = "MTR_EXPR_MAP_LITERAL" -> write_map_literal(c, expr)

RECURSIVE write(_, _)

\* History: where the value of the local with this symbol index is pushed.
Declaring(c, local) == [c EXCEPT !.locals = Append(c.locals, local)]

\* write_variable: nil_op for a declaration without a value, else the
\* value.
write_variable(c, var) ==
    IF "value" \in DOMAIN var THEN write_expr(c, var.value)
    ELSE Declaring(WriteOp(c, "NIL", 0, 1), [site |-> c.size, index |-> var.index])

\* write_assignment to a primary: the expression, MTR_OP_SET, the index.
write_assignment(c, stmt) ==
    WriteOp(write_expr(c, stmt.expression), "SET", stmt.right.index, 3)

\* write_call_stmt: the call, then MTR_OP_POP.
write_call_stmt(c, stmt) == WriteOp(write_expr(c, stmt.call), "POP", 0, 1)

RECURSIVE write_statements(_, _, _)
write_statements(c, statements, i) ==
    IF i > Len(statements) THEN c
    ELSE write_statements(write(c, statements[i]), statements, i + 1)

\* The locals a block declares directly.
Declared(statements) ==
    Cardinality({i \in 1..Len(statements) : statements[i].type = "MTR_STMT_VAR"})

\* write_block: the statements, then MTR_OP_POP_V and var_count.
write_block(c, stmt) ==
    LET d == write_statements(c, stmt.statements, 1)
        e == WriteOp(d, "POP_V", stmt.var_count, 3) IN
    [e EXCEPT !.blocks = Append(e.blocks,
        [entry |-> c.size, exit |-> d.size, declared |-> Declared(stmt.statements)])]

\* write_if
write_if(c, stmt) ==
    LET c1 == write_expr(c, stmt.condition)
        j == write_jump(c1, "JMP_Z")
        c2 == write(j.chunk, stmt.then) IN
    IF stmt.otherwise.type # "NULL" THEN
        LET k == write_jump(c2, "JMP")
            c3 == Intend(patch_jump(k.chunk, j.site), j, k.chunk.size)
            c4 == write(c3, stmt.otherwise) IN
        Intend(patch_jump(c4, k.site), k, c4.size)
    ELSE Intend(patch_jump(c2, j.site), j, c2.size)

\* write_while
write_while(c, stmt) ==
    LET c1 == write_expr(c, stmt.condition)
        j == write_jump(c1, "JMP_Z")
        c2 == write(j.chunk, stmt.body)
        c3 == write_expr(c2, stmt.condition)
        c4 == write_loop(c3, j.site) IN
    Looped(Intend(patch_jump(c4, j.site), j, c4.size),
           [start |-> c.size, test |-> c1.size, body |-> j.chunk.size,
            again |-> c2.size, back |-> c3.size, end |-> c4.size])

write(c, stmt) ==
    CASE stmt.type = "MTR_STMT_VAR" -> write_variable(c, stmt)
      [] stmt.type = "MTR_STMT_IF" -> write_if(c, stmt)
      [] stmt.type = "MTR_STMT_WHILE" -> write_while(c, stmt)
      [] stmt.type \in {"MTR_STMT_SCOPE", "MTR_STMT_BLOCK"} -> write_block(c, stmt)
      [] stmt.type = "MTR_STMT_ASSIGNMENT" -> write_assignment(c, stmt)
      [] stmt.type = "MTR_STMT_CALL" -> write_call_stmt(c, stmt)
      [] stmt.type = "CODE" -> WriteCode(c, stmt.size)

\* write_function
write_function(c, f) == write(c, f.body)

\* mtr_call, MTR_OP_JMP / JMP_Z / AND / OR taken: where = READ(i16) at the
\* operand, then ip += where.  The ip it lands on.
Landing(c, operand) ==
    LET where == IF operand \in DOMAIN c.words THEN c.words[operand] ELSE 0 IN
    operand + 2 + where

EmitIdle == chunk = mtr_new_chunk /\ written = <<>>

\* One statement more is written to the chunk of the function.
Written(stmt) ==
    /\ Len(written) < MaxStmts
    /\ chunk' = write(chunk, stmt)
    /\ written' = Append(written, stmt)
    /\ UNCHANGED <<compileVars, vmVars, blockVars, scopeVars, parseVars>>

WriteIf ==
    \E condition, then \in CodeSizes :
        Written(If(Code(condition), Code(then), NULL))

WriteIfElse ==
    \E condition, then, otherwise \in CodeSizes :
        Written(If(Code(condition), Code(then), Code(otherwise)))

WriteWhile ==
    \E condition, body \in CodeSizes :
        Written(While(Code(condition), Code(body)))

WriteLogic ==
    \E operator \in {"AND", "OR"}, left, right \in CodeSizes :
        Written(Assignment(Binary(operator, Code(left), Code(right))))

(***************************************************************************)
(* ONE FUNCTION, FROM ITS TREE TO ITS RUN                                  *)
(*                                                                         *)
(* fn f(Bool a) { ... }: the statements of the body declare locals, assign *)
(* false to a, and branch or loop on a.  Every declared name is new, so    *)
(* add_symbol never fails.  A validator is its count and how deep it is    *)
(* below the global validator.                                             *)
(***************************************************************************)
MaxBlockLen == 2

MaxBlockSteps == 24

Simple == {Variable, Assignment(Literal)}

\* The blocks a branch or a body may be: { }, { s }.
InnerBlocks == {Block("MTR_STMT_BLOCK", <<>>)} \cup
    {Block("MTR_STMT_BLOCK", <<s>>) : s \in Simple}

\* if_stmt, while_stmt: block(parser) on '{', else declaration(parser).
Branches == InnerBlocks \cup Simple

Scopes == {[b EXCEPT !.type = "MTR_STMT_SCOPE"] : b \in InnerBlocks}

\* A body that declares a variable in the branch of an if and then ends
\* the loop: { if a: Int x; a := false; }
Leaving ==
    Block("MTR_STMT_BLOCK", <<If(Primary, Variable, NULL), Assignment(Literal)>>)

Statements ==
    Simple
    \cup {If(Primary, t, o) : t \in Branches, o \in Branches \cup {NULL}}
    \cup {While(Primary, b) : b \in Branches \cup {Leaving}}
    \cup Scopes

Bodies == {Block("MTR_STMT_BLOCK", s) : s \in SeqsUpTo(Statements, MaxBlockLen)}

GlobalValidator == [count |-> 0, depth |-> 0]

\* init_validator: count is 0 right below the global validator, else the
\* count of the enclosing validator.
init_validator(enclosing) ==
    [count |-> IF enclosing.depth = 0 THEN 0 ELSE enclosing.count,
     depth |-> enclosing.depth + 1]

\* add_symbol of a new name: symbol.index = validator->count++
analyze_variable(decl, v) ==
    [stmt |-> [decl EXCEPT !.index = v.count],
     v |-> [v EXCEPT !.count = v.count + 1]]

RECURSIVE analyze(_, _)

RECURSIVE analyze_statements(_, _, _)
analyze_statements(statements, v, i) ==
    IF i > Len(statements) THEN [statements |-> statements, v |-> v]
    ELSE LET r == analyze(statements[i], v) IN
         analyze_statements([statements EXCEPT ![i] = r.stmt], r.v, i + 1)

\* analyze_block: var_count = validator->count - current
analyze_block(block, v) ==
    LET current == v.count
        r == analyze_statements(block.statements, v, 1) IN
    [stmt |-> [block EXCEPT !.statements = r.statements,
                            !.var_count = U16(r.v.count - current)],
     v |-> r.v]

\* analyze_scope: the block under a validator of its own.
analyze_scope(block, v) ==
    [stmt |-> analyze_block(block, init_validator(v)).stmt, v |-> v]

\* analyze_if: each branch under a validator of its own; stmt->then is
\* assigned the checked else branch when there is one.
analyze_if(stmt, v) ==
    LET then_checked == analyze(stmt.then, init_validator(v)).stmt IN
    IF stmt.otherwise.type # "NULL" THEN
        LET e_checked == analyze(stmt.otherwise, init_validator(v)).stmt IN
        [stmt |-> [stmt EXCEPT !.then = e_checked, !.otherwise = e_checked],
         v |-> v]
    ELSE [stmt |-> [stmt EXCEPT !.then = then_checked], v |-> v]

\* analyze_while: the body under a validator of its own.
analyze_while(stmt, v) ==
    [stmt |-> [stmt EXCEPT !.body = analyze(stmt.body, init_validator(v)).stmt],
     v |-> v]

analyze(stmt, v) ==
    CASE stmt.type = "MTR_STMT_SCOPE" -> analyze_scope(stmt, v)
      [] stmt.type = "MTR_STMT_BLOCK" -> analyze_block(stmt, v)
      [] stmt.type = "MTR_STMT_VAR" -> analyze_variable(stmt, v)
      [] stmt.type = "MTR_STMT_IF" -> analyze_if(stmt, v)
      [] stmt.type = "MTR_STMT_WHILE" -> analyze_while(stmt, v)
      [] OTHER -> [stmt |-> stmt, v |-> v]

\* analyze_fn: a validator with count 0, the parameter, then the body.
analyze_fn(f, v) ==
    LET fn_validator == [init_validator(v) EXCEPT !.count = 0]
        arg == analyze_variable(Variable, fn_validator) IN
    [f EXCEPT !.body = analyze(f.body, arg.v).stmt]

NotRunning == [ip |-> 0, frame |-> 0]

NoBlock == [exit |-> -1, count |-> 0, declared |-> 0, before |-> 0, after |-> 0]

BlockIdle ==
    /\ fn = [argc |-> 0, body |-> NULL]
    /\ bpc = "idle"
    /\ run = NotRunning
    /\ seen = <<>>
    /\ ended = NoBlock

BlockStart ==
    /\ fn \in {[argc |-> 1, body |-> b] : b \in Bodies}
    /\ bpc = "parsed"
    /\ run = NotRunning
    /\ seen = <<>>
    /\ ended = NoBlock

\* mtr_validate on the function: global_analysis, analyze_fn.
AnalyzeFn ==
    /\ bpc = "parsed"
    /\ fn' = analyze_fn(fn, GlobalValidator)
    /\ bpc' = "validated"
    /\ UNCHANGED <<run, seen, ended, compileVars, vmVars, emitVars, scopeVars, parseVars>>

\* write_bytecode, MTR_STMT_FN: a new chunk, write_function.
WriteFn ==
    /\ bpc = "validated"
    /\ chunk' = write_function(mtr_new_chunk, fn)
    /\ bpc' = "written"
    /\ UNCHANGED <<written, fn, run, seen, ended, compileVars, vmVars, scopeVars, parseVars>>

\* mtr_call(engine, chunk, 1) with the argument on the stack.
CallFn ==
    /\ bpc = "written"
    /\ \E a \in {0, 1} :
        /\ engine' = mtr_push(engine, MTR_INT_VAL(a))
        /\ run' = [ip |-> 0, frame |-> FrameAtEntry(engine', fn.argc)]
        /\ seen' = (0 :> engine'.stack_top)
    /\ bpc' = "running"
    /\ UNCHANGED <<calls, vpc, vret, pkg, last, fuel, fn, ended, compileVars, emitVars, scopeVars, parseVars>>

\* switch (*ip++) reads this instruction.
Fetched(op) ==
    /\ bpc = "running"
    /\ fuel > 0
    /\ run.ip < chunk.size
    /\ run.ip \in DOMAIN chunk.ops
    /\ chunk.ops[run.ip].op = op

\* The instruction has run and ended the engine as e, the ip at ip.
Stepped(e, ip) ==
    /\ engine' = e
    /\ run' = [run EXCEPT !.ip = ip]
    /\ seen' = Put(seen, ip, e.stack_top)
    /\ fuel' = fuel - 1
    /\ bpc' = IF e.fatal THEN "exited" ELSE bpc
    /\ UNCHANGED <<calls, vpc, vret, pkg, last, fn, compileVars, emitVars, scopeVars, parseVars>>

RunNil ==
    /\ Fetched("NIL")
    /\ Stepped(OP_NIL(engine), run.ip + 1)
    /\ UNCHANGED ended

RunFalse ==
    /\ Fetched("FALSE")
    /\ Stepped(OP_INT(engine, 0), run.ip + 1)
    /\ UNCHANGED ended

RunGet ==
    /\ Fetched("GET")
    /\ Stepped(OP_GET(engine, run.frame, chunk.ops[run.ip].arg), run.ip + 3)
    /\ UNCHANGED ended

RunSet ==
    /\ Fetched("SET")
    /\ Stepped(OP_SET(engine, run.frame, chunk.ops[run.ip].arg), run.ip + 3)
    /\ UNCHANGED ended

\* MTR_OP_JMP_Z: pops the condition, ip += where when it is 0.
RunJmpZ ==
    /\ Fetched("JMP_Z")
    /\ Stepped(OP_JMP_Z(engine),
               IF Top(engine).v = 0 THEN Landing(chunk, run.ip + 1) ELSE run.ip + 3)
    /\ UNCHANGED ended

RunJmp ==
    /\ Fetched("JMP")
    /\ Stepped(engine, Landing(chunk, run.ip + 1))
    /\ UNCHANGED ended

\* MTR_OP_AND: peeks the condition; ip += where when it is 0, else pops it.
OP_ANDMut(e) == mtr_pop(e)
OP_AND(e) == IF Top(e).v = 0 THEN e ELSE mtr_pop(e)

\* MTR_OP_OR: peeks the condition; ip += where when it is not 0, else pops it.
OP_OR(e) == IF Top(e).v # 0 THEN e ELSE mtr_pop(e)

RunAnd ==
    /\ Fetched("AND")
    /\ Stepped(OP_AND(engine),
               IF Top(engine).v = 0 THEN Landing(chunk, run.ip + 1) ELSE run.ip + 3)
    /\ UNCHANGED ended

RunOr ==
    /\ Fetched("OR")
    /\ Stepped(OP_OR(engine),
               IF Top(engine).v # 0 THEN Landing(chunk, run.ip + 1) ELSE run.ip + 3)
    /\ UNCHANGED ended

\* MTR_OP_POP_V at the end of a block.
RunPopV ==
    /\ Fetched("POP_V")
    /\ LET e == OP_POP_V(engine, chunk.ops[run.ip].arg) IN
       /\ Stepped(e, run.ip + 3)
       /\ \E i \in 1..Len(chunk.blocks) :
            /\ chunk.blocks[i].exit = run.ip
            /\ ended' = [exit |-> run.ip,
                        count |-> chunk.ops[run.ip].arg,
                        declared |-> chunk.blocks[i].declared,
                        before |-> seen[chunk.blocks[i].entry],
                        after |-> e.stack_top]

\* while (ip < end) ends.
RunEnd ==
    /\ bpc = "running"
    /\ run.ip >= chunk.size
    /\ bpc' = "returned"
    /\ UNCHANGED <<fn, run, seen, ended, compileVars, vmVars, emitVars, scopeVars, parseVars>>

(***************************************************************************)
(* SHORT-CIRCUITED OPERATORS                                               *)
(*                                                                         *)
(* fn f(Bool a, Bool b) { a := L op R; }: L and R are a, b, false or an    *)
(* && or || of these.                                                      *)
(***************************************************************************)
Second == [type |-> "MTR_EXPR_PRIMARY", index |-> 1]

Operands == {Primary, Second, Literal}

Logic(operands) ==
    {Binary(operator, left, right) :
        operator \in {"AND", "OR"}, left \in operands, right \in operands}

LogicBodies ==
    {Block("MTR_STMT_BLOCK", <<Assignment(e)>>) :
        e \in Logic(Operands \cup Logic(Operands))}

LogicStart ==
    /\ fn \in {[argc |-> 2, body |-> b] : b \in LogicBodies}
    /\ bpc = "parsed"
    /\ run = NotRunning
    /\ seen = <<>>
    /\ ended = NoBlock

\* mtr_call(engine, chunk, 2) with both arguments on the stack.
CallLogic ==
    /\ bpc = "written"
    /\ \E a, b \in {0, 1} :
        /\ engine' = mtr_push(mtr_push(engine, MTR_INT_VAL(a)), MTR_INT_VAL(b))
        /\ run' = [ip |-> 0, frame |-> FrameAtEntry(engine', fn.argc)]
        /\ seen' = (0 :> engine'.stack_top)
    /\ bpc' = "running"
    /\ UNCHANGED <<calls, vpc, vret, pkg, last, fuel, fn, ended, compileVars, emitVars, scopeVars, parseVars>>

(***************************************************************************)
(* CALLS                                                                   *)
(*                                                                         *)
(* fn f((..) -> Int g) { g(...); }: the arguments are 7, 8 or g itself.    *)
(* The chunk of the callee is an input: it returns one of its parameters   *)
(* or false.                                                               *)
(***************************************************************************)
MaxCallArgs == 2

IntLiteral(n) == [type |-> "MTR_EXPR_LITERAL", value |-> n]

Call(callable, argv) ==
    [type |-> "MTR_EXPR_CALL", callable |-> callable, argv |-> argv]

CallStmt(call) == [type |-> "MTR_STMT_CALL", call |-> call]

Arguments == {IntLiteral(7), IntLiteral(8), Primary}

\* fn f(g) { g(...); } and fn f(g) { g(); g(); }
CallBodies ==
    {Block("MTR_STMT_BLOCK", <<CallStmt(Call(Primary, argv))>>) :
        argv \in SeqsUpTo(Arguments, MaxCallArgs)}
    \cup {Block("MTR_STMT_BLOCK", <<CallStmt(Call(Primary, <<>>)), CallStmt(Call(Primary, <<>>))>>)}

CallStart ==
    /\ fn \in {[argc |-> 1, body |-> b] : b \in CallBodies}
    /\ bpc = "parsed"
    /\ run = NotRunning
    /\ seen = <<>>
    /\ ended = NoBlock

\* mtr_call(engine, chunk, 1) with one of the functions on the stack.
CallCaller ==
    /\ bpc = "written"
    /\ \E g \in DOMAIN engine.heap :
        /\ engine' = mtr_push(engine, MTR_OBJ_VAL(g))
        /\ run' = [ip |-> 0, frame |-> FrameAtEntry(engine', fn.argc)]
        /\ seen' = (0 :> engine'.stack_top)
    /\ bpc' = "running"
    /\ UNCHANGED <<calls, vpc, vret, pkg, last, fuel, fn, ended, compileVars, emitVars, scopeVars, parseVars>>

RunInt ==
    /\ Fetched("INT")
    /\ Stepped(OP_INT(engine, chunk.ops[run.ip].arg), run.ip + 9)
    /\ UNCHANGED ended

RunPop ==
    /\ Fetched("POP")
    /\ Stepped(OP_POP(engine), run.ip + 1)
    /\ UNCHANGED ended

\* One instruction of the callee, or the call itself, has run.
Called(op, arg, e, frame) ==
    /\ engine' = e
    /\ last' = [op |-> op, arg |-> arg, frame |-> frame, depth |-> 1]
    /\ fuel' = fuel - 1
    /\ UNCHANGED <<vpc, vret, pkg, fn, ended, compileVars, emitVars, scopeVars, parseVars>>

\* MTR_OP_CALL: argc = READ(u8), the callable is popped, and its call()
\* runs mtr_call(engine, chunk of the callable, argc).
RunCall ==
    /\ Fetched("CALL")
    /\ IsFunction(engine, peek(engine, 0))
    /\ LET argc == chunk.ops[run.ip].arg
           e == mtr_pop(engine) IN
       /\ calls' = Append(calls, [frame |-> FrameAtEntry(e, argc), argc |-> argc,
                                  fn |-> engine.heap[peek(engine, 0).v].chunk])
       /\ Called("CALL", argc, e, FrameAtEntry(e, argc))
    /\ run' = [run EXCEPT !.ip = run.ip + 2]
    /\ bpc' = "called"
    /\ UNCHANGED seen

InCallee == bpc = "called" /\ calls # <<>> /\ fuel > 0

\* The callee reads one of its parameters: MTR_OP_GET i.
CalleeGet ==
    /\ InCallee
    /\ last.op = "CALL"
    /\ \E i \in 0..(Last(calls).argc - 1) :
        Called("GET", i, OP_GET(engine, Frame, i), Frame)
    /\ UNCHANGED <<calls, run, seen, bpc>>

\* The callee pushes false.
CalleeFalse ==
    /\ InCallee
    /\ last.op = "CALL"
    /\ Called("FALSE", 0, OP_INT(engine, 0), Frame)
    /\ UNCHANGED <<calls, run, seen, bpc>>

\* MTR_OP_RETURN in the callee; MTR_OP_CALL of the caller is over.
CalleeReturn ==
    /\ InCallee
    /\ last.op \in {"GET", "FALSE"}
    /\ engine' = OP_RETURN(engine, Frame)
    /\ calls' = SubSeq(calls, 1, Len(calls) - 1)
    /\ last' = [op |-> "RETURN", arg |-> 0, frame |-> Frame, depth |-> 1]
    /\ fuel' = fuel - 1
    /\ seen' = Put(seen, run.ip, engine'.stack_top)
    /\ bpc' = IF engine'.fatal THEN "exited" ELSE "running"
    /\ UNCHANGED <<vpc, vret, pkg, fn, run, ended, compileVars, emitVars, scopeVars, parseVars>>

\* The chunk of the callee ends without MTR_OP_RETURN, as the chunk of a
\* Void function with an empty body does: while (ip < end) ends and
\* mtr_call returns.
CalleeEnd ==
    /\ InCallee
    /\ last.op = "CALL"
    /\ calls' = SubSeq(calls, 1, Len(calls) - 1)
    /\ last' = [op |-> "END", arg |-> 0, frame |-> Frame, depth |-> 1]
    /\ fuel' = fuel - 1
    /\ seen' = Put(seen, run.ip, engine.stack_top)
    /\ bpc' = "running"
    /\ UNCHANGED <<engine, vpc, vret, pkg, fn, run, ended, compileVars, emitVars, scopeVars, parseVars>>

(***************************************************************************)
(* ARRAY AND MAP LITERALS                                                  *)
(*                                                                         *)
(* fn f() { [Int] x := [e1, ..., en]; } and                                *)
(* fn f() { [Int, Int] x := {k1: v1, ..., kn: vn}; } with integer literals.*)
(***************************************************************************)
MaxElements == 2

LiteralValues == {7, 8}

ArrayLiteral(expressions) ==
    [type |-> "MTR_EXPR_ARRAY_LITERAL", expressions |-> expressions]

MapLiteral(entries) == [type |-> "MTR_EXPR_MAP_LITERAL", entries |-> entries]

Initialized(value) == [type |-> "MTR_STMT_VAR", index |-> 0, value |-> value]

ArrayLiterals ==
    {ArrayLiteral([i \in 1..Len(s) |-> IntLiteral(s[i])]) :
        s \in SeqsUpTo(LiteralValues, MaxElements + 1)}

MapLiterals ==
    {MapLiteral([i \in 1..Len(s) |->
                    [key |-> IntLiteral(s[i][1]), value |-> IntLiteral(s[i][2])]]) :
        s \in SeqsUpTo(LiteralValues \X LiteralValues, MaxElements)}

LiteralBodies ==
    {Block("MTR_STMT_BLOCK", <<Initialized(e)>>) : e \in ArrayLiterals \cup MapLiterals}

LiteralStart ==
    /\ fn \in {[argc |-> 0, body |-> b] : b \in LiteralBodies}
    /\ bpc = "parsed"
    /\ run = NotRunning
    /\ seen = <<>>
    /\ ended = NoBlock

\* mtr_call(engine, chunk, 0)
CallPlain ==
    /\ bpc = "written"
    /\ run' = [ip |-> 0, frame |-> FrameAtEntry(engine, fn.argc)]
    /\ seen' = (0 :> engine.stack_top)
    /\ bpc' = "running"
    /\ UNCHANGED <<vmVars, fn, ended, compileVars, emitVars, scopeVars, parseVars>>

RunArrayLiteral ==
    /\ Fetched("ARRAY_LITERAL")
    /\ Stepped(OP_ARRAY_LITERAL(engine, chunk.ops[run.ip].arg), run.ip + 2)
    /\ UNCHANGED ended

RunMapLiteral ==
    /\ Fetched("MAP_LITERAL")
    /\ Stepped(OP_MAP_LITERAL(engine, chunk.ops[run.ip].arg), run.ip + 2)
    /\ UNCHANGED ended

(***************************************************************************)
(* CONDITIONS                                                              *)
(*                                                                         *)
(* fn f(T a) { ... }: the statements of the body are if a: a := false;,    *)
(* while a: a := false; and a := false;, each with its own type T of a.    *)
(* run.ip is the number of statements analyze_block has analysed and seen  *)
(* tells of each whether analyze returned it (1) or NULL (0).              *)
(***************************************************************************)
DataTypes ==
    {"MTR_DATA_INT", "MTR_DATA_FLOAT", "MTR_DATA_BOOL", "MTR_DATA_STRING",
     "MTR_DATA_ARRAY", "MTR_DATA_MAP", "MTR_DATA_INVALID"}

\* A reference to a of the given type.
Typed(data) == [type |-> "MTR_EXPR_PRIMARY", index |-> 0, data |-> data]

Conditionals ==
    {If(Typed(t), Assignment(Literal), NULL) : t \in DataTypes}
    \cup {While(Typed(t), Assignment(Literal)) : t \in DataTypes}

ConditionBodies ==
    {Block("MTR_STMT_BLOCK", b) :
        b \in SeqsUpTo(Conditionals \cup {Assignment(Literal)}, MaxBlockLen) \ {<<>>}}

\* TYPE_CHECK: NULL and MTR_DATA_INVALID make the caller return NULL.
TYPE_CHECK(data) == data # "MTR_DATA_INVALID"

\* analyze_if, analyze_while: the test of the type of the condition.
condition_ok(data) == data \in {"MTR_DATA_FLOAT", "MTR_DATA_INT", "MTR_DATA_BOOL"}

\* analyze_if, analyze_while on a statement whose branch or body passes:
\* does sanitize_stmt return the statement?
analyze_condition(stmt) ==
    IF stmt.type \notin {"MTR_STMT_IF", "MTR_STMT_WHILE"} THEN TRUE
    ELSE TYPE_CHECK(stmt.condition.data) /\ condition_ok(stmt.condition.data)

\* analyze_function_no_validator after analyze of the body: with a NULL
\* body the read of stmt->body->type is undefined; the build either stops
\* there or goes on to sanitize_stmt(stmt, false).
FunctionOutcomes(all_ok) == IF all_ok THEN {"validated"} ELSE {"rejected", "crashed"}

ConditionStart ==
    /\ fn \in {[argc |-> 1, body |-> b] : b \in ConditionBodies}
    /\ bpc = "parsed"
    /\ run = NotRunning
    /\ seen = <<>>
    /\ ended = NoBlock

\* analyze_block: one iteration of its loop.
ConditionAnalyze ==
    /\ bpc = "parsed"
    /\ run.ip < Len(fn.body.statements)
    /\ run' = [run EXCEPT !.ip = run.ip + 1]
    /\ seen' = Put(seen, run.ip + 1,
                   IF analyze_condition(fn.body.statements[run.ip + 1]) THEN 1 ELSE 0)
    /\ UNCHANGED <<fn, bpc, ended, compileVars, vmVars, emitVars, scopeVars, parseVars>>

\* analyze_block returns the block or NULL; analyze_function_no_validator
\* and mtr_validate after it.
ConditionReturn ==
    /\ bpc = "parsed"
    /\ run.ip = Len(fn.body.statements)
    /\ bpc' \in FunctionOutcomes(\A i \in DOMAIN seen : seen[i] = 1)
    /\ UNCHANGED <<fn, run, seen, ended, compileVars, vmVars, emitVars, scopeVars, parseVars>>

(***************************************************************************)
(* BINARY OPERATORS                                                        *)
(*                                                                         *)
(* fn f(L a, R b) { a := a op b; } for every binary operator and the types *)
(* L and R of its operands.  Numbers stand for the integers and the floats *)
(* of the machine.                                                         *)
(***************************************************************************)
Operators ==
    {"PLUS", "MINUS", "STAR", "SLASH", "LESS", "LESS_EQUAL", "GREATER",
     "GREATER_EQUAL", "EQUAL", "BANG_EQUAL", "AND", "OR"}

OperandTypes == {"MTR_DATA_INT", "MTR_DATA_FLOAT", "MTR_DATA_BOOL", "MTR_DATA_STRING"}

BinaryBodies ==
    {Block("MTR_STMT_BLOCK",
           <<Assignment(Binary(op, Typed(l), [Typed(r) EXCEPT !.index = 1]))>>) :
        op \in Operators, l \in OperandTypes, r \in OperandTypes}

\* get_operator_type: Bool for && and ||, else the type of the operands.
get_operator_type(op, lhs, rhs) ==
    IF op \in {"AND", "OR"} THEN "MTR_DATA_BOOL"
    ELSE IF op \in Operators THEN lhs
    ELSE "MTR_DATA_INVALID"

\* analyze_binary: NULL when an operand has no type or the types of the
\* operands differ; else the type of the operator, stored in the operator.
analyze_binary(expr) ==
    LET l == expr.left.data
        r == expr.right.data
        t == get_operator_type(expr.operator, l, r) IN
    IF ~TYPE_CHECK(l) \/ ~TYPE_CHECK(r) \/ t = "MTR_DATA_INVALID" \/ l # r THEN NULL
    ELSE ("data" :> t) @@ expr

BinaryStart ==
    /\ fn \in {[argc |-> 2, body |-> b] : b \in BinaryBodies}
    /\ bpc = "parsed"
    /\ run = NotRunning
    /\ seen = <<>>
    /\ ended = NoBlock

\* mtr_validate on the function: analyze_binary on the expression.
BinaryAnalyze ==
    /\ bpc = "parsed"
    /\ LET t == analyze_binary(fn.body.statements[1].expression) IN
       IF t = NULL THEN bpc' = "rejected" /\ fn' = fn
       ELSE /\ bpc' = "validated"
            /\ fn' = [fn EXCEPT !.body.statements[1].expression = t]
    /\ UNCHANGED <<run, seen, ended, compileVars, vmVars, emitVars, scopeVars, parseVars>>

\* mtr_call(engine, chunk, 2) with both arguments on the stack.
BinaryCall ==
    /\ bpc = "written"
    /\ \E a, b \in {1, 2} :
        /\ engine' = mtr_push(mtr_push(engine, MTR_INT_VAL(a)), MTR_INT_VAL(b))
        /\ run' = [ip |-> 0, frame |-> FrameAtEntry(engine', fn.argc)]
        /\ seen' = (0 :> engine'.stack_top)
    /\ bpc' = "running"
    /\ UNCHANGED <<calls, vpc, vret, pkg, last, fuel, fn, ended, compileVars, emitVars, scopeVars, parseVars>>

Arithmetic ==
    {op \o kind : op \in {"ADD", "SUB", "MUL", "DIV", "LESS", "GREATER", "EQUAL"},
                   kind \in {"_I", "_F"}}

\* l op r
Applied(op, l, r) ==
    CASE op \in {"ADD_I", "ADD_F"} -> l + r
      [] op \in {"SUB_I", "SUB_F"} -> l - r
      [] op \in {"MUL_I", "MUL_F"} -> l * r
      [] op \in {"DIV_I", "DIV_F"} -> l \div r
      [] op \in {"LESS_I", "LESS_F"} -> IF l < r THEN 1 ELSE 0
      [] op \in {"GREATER_I", "GREATER_F"} -> IF l > r THEN 1 ELSE 0
      [] OTHER -> IF l = r THEN 1 ELSE 0

\* BINARY_OP of the engine: r = pop, l = pop, push(l op r).
OP_BINARY(e, op) ==
    LET r == Top(e)
        l == peek(e, 1) IN
    mtr_push(mtr_pop(mtr_pop(e)), MTR_INT_VAL(Applied(op, l.v, r.v)))

\* MTR_OP_NOT: the top of the stack is negated in place.
OP_NOT(e) ==
    [e EXCEPT !.stack = Write(e.stack, e.stack_top - 1,
                              MTR_INT_VAL(IF Top(e).v = 0 THEN 1 ELSE 0))]

RunBinary ==
    /\ bpc = "running"
    /\ \E op \in Arithmetic :
        /\ Fetched(op)
        /\ Stepped(OP_BINARY(engine, op), run.ip + 1)
    /\ UNCHANGED ended

RunNot ==
    /\ Fetched("NOT")
    /\ Stepped(OP_NOT(engine), run.ip + 1)
    /\ UNCHANGED ended

(***************************************************************************)
(* SCOPES AND CLOSURES                                                     *)
(*                                                                         *)
(* The validators of one walk of mtr_validate's second loop, innermost     *)
(* last: scopes[1] is the global validator after load_global, and the      *)
(* enclosing validator of scopes[k] is scopes[k - 1].  The tree walked is  *)
(* an input: each step analyses the statement or primary that comes next.  *)
(* A symbol table is the set of its symbols; closures holds the upvalue    *)
(* tables of the closure declarations met so far.                          *)
(***************************************************************************)
MaxScopeSteps == 6

GlobalNames == <<"f", "g">>

LocalNames == {"a", "b", "c"}

NoSymbol == [token |-> "", index |-> -1, is_global |-> FALSE, upvalue |-> FALSE]

\* mtr_symbol_table_get
Lookup(v, token) ==
    IF \E s \in v.symbols : s.token = token
    THEN CHOOSE s \in v.symbols : s.token = token
    ELSE NoSymbol

\* find_symbol: the validator's table, then the enclosing ones.  Level is
\* the validator that holds the symbol, 0 when none does.
RECURSIVE Level(_, _, _)
Level(chain, k, token) ==
    IF k = 0 THEN 0
    ELSE IF Lookup(chain[k], token) # NoSymbol THEN k
    ELSE Level(chain, k - 1, token)

find_symbol(chain, k, token) ==
    LET j == Level(chain, k, token) IN
    IF j = 0 THEN NoSymbol ELSE Lookup(chain[j], token)

\* add_symbol on any validator: -1 when find_symbol finds the name, else
\* index = count++, is_global = (enclosing == NULL), upvalue = false.
add_symbol_in(chain, k, token) ==
    IF find_symbol(chain, k, token) # NoSymbol THEN [i |-> -1, chain |-> chain]
    ELSE [i |-> chain[k].count,
          chain |-> [chain EXCEPT
              ![k].symbols = @ \cup {[token |-> token, index |-> chain[k].count,
                                      is_global |-> (k = 1), upvalue |-> FALSE]},
              ![k].count = @ + 1]]

\* analyze_function_no_validator, the loop over argv: load_var of each.
RECURSIVE LoadArgs(_, _, _, _)
LoadArgs(chain, k, argv, i) ==
    IF i > Len(argv) THEN [ok |-> TRUE, chain |-> chain]
    ELSE LET r == add_symbol_in(chain, k, argv[i])
             rest == LoadArgs(r.chain, k, argv, i + 1) IN
         [ok |-> r.i # -1 /\ rest.ok, chain |-> rest.chain]

\* resolve_local: the validator's own table only.
resolve_local(chain, k, token) == Lookup(chain[k], token).index

\* add_upvalue on the closure of a validator; closure 0 is the NULL of a
\* validator outside every closure, which add_upvalue dereferences.
add_upvalue(cls, closure, symbol, local) ==
    IF closure = 0 THEN [i |-> -1, cls |-> cls, crash |-> TRUE]
    ELSE LET ups == cls[closure] IN
         IF \E i \in 1..Len(ups) : ups[i].token = symbol.token
         THEN [i |-> (CHOOSE i \in 1..Len(ups) : ups[i].token = symbol.token) - 1,
               cls |-> cls, crash |-> FALSE]
         ELSE [i |-> Len(ups),
               cls |-> [cls EXCEPT ![closure] = Append(ups,
                   [token |-> symbol.token, index |-> symbol.index, local |-> local])],
               crash |-> FALSE]

\* resolve_upvalue
RECURSIVE resolve_upvalue(_, _, _, _)
resolve_upvalue(chain, cls, k, symbol) ==
    IF k = 1 THEN [i |-> -1, cls |-> cls, crash |-> FALSE]
    ELSE IF resolve_local(chain, k - 1, symbol.token) # -1
         THEN add_upvalue(cls, chain[k].closure, symbol, TRUE)
    ELSE LET r == resolve_upvalue(chain, cls, k - 1, symbol) IN
         IF r.crash THEN r
         ELSE IF r.i # -1
              THEN add_upvalue(r.cls, chain[k].closure, [symbol EXCEPT !.index = r.i], FALSE)
         ELSE [i |-> -1, cls |-> r.cls, crash |-> FALSE]

\* analyze_primary of a declared name: the primary's symbol after it.
analyze_primary(chain, cls, k, token) ==
    LET symbol == find_symbol(chain, k, token)
        expr == [token |-> token, index |-> symbol.index,
                 is_global |-> symbol.is_global, upvalue |-> symbol.upvalue]
        check == chain[k].closure # 0 /\ ~symbol.is_global IN
    IF ~check THEN [expr |-> expr, cls |-> cls, crash |-> FALSE]
    ELSE IF resolve_local(chain, k, token) # -1
         THEN [expr |-> [expr EXCEPT !.index = resolve_local(chain, k, token)],
               cls |-> cls, crash |-> FALSE]
    ELSE LET r == resolve_upvalue(chain, cls, k, expr) IN
         [expr |-> [expr EXCEPT !.index = r.i, !.upvalue = TRUE],
          cls |-> r.cls, crash |-> r.crash]

\* The validator of the function body scopes[k] belongs to.
RECURSIVE Root(_, _)
Root(chain, k) == IF k <= 1 \/ chain[k].root THEN k ELSE Root(chain, k - 1)

Validator(count, closure, root, argv) ==
    [symbols |-> {}, count |-> count, closure |-> closure, root |-> root, argv |-> argv]

\* mtr_validate after its first loop over n function declarations.
GlobalScope(n) ==
    [Validator(n, 0, FALSE, <<>>) EXCEPT !.symbols =
        {[token |-> GlobalNames[i], index |-> i - 1, is_global |-> TRUE,
          upvalue |-> FALSE] : i \in 1..n}]

\* init_validator on scopes[k] as the enclosing validator.
Enclosed(chain, k) ==
    Validator(IF k = 1 THEN 0 ELSE chain[k].count, chain[k].closure, FALSE, <<>>)

ArgLists == {s \in SeqsUpTo(LocalNames, 2) : Injective(s)}

NoPrimary ==
    [token |-> "", index |-> 0, is_global |-> FALSE, upvalue |-> FALSE,
     level |-> 0, at |-> 0, own |-> 0, slot |-> 0, frame |-> 0,
     closure |-> 0, parent |-> 0, outer |-> 0]

ScopeIdle ==
    /\ scopes = <<>>
    /\ closures = <<>>
    /\ prim = NoPrimary
    /\ spc = "idle"
    /\ vok = TRUE
    /\ vsteps = 0

ScopeStart ==
    /\ \E n \in 1..Len(GlobalNames) : scopes = <<GlobalScope(n)>>
    /\ closures = <<>>
    /\ prim = NoPrimary
    /\ spc = "analysis"
    /\ vok = TRUE
    /\ vsteps = 0

\* One more statement or expression of the input is analysed.
Analysing == spc = "analysis" /\ vok /\ vsteps < MaxScopeSteps

Top_k == Len(scopes)

\* global_analysis, MTR_STMT_FN: analyze_fn under a validator with count 0,
\* then the parameters.
ScopeAnalyzeFn ==
    /\ Analysing /\ Top_k = 1
    /\ \E argv \in ArgLists :
        LET v == [Enclosed(scopes, 1) EXCEPT !.count = 0, !.root = TRUE, !.argv = argv]
            r == LoadArgs(Append(scopes, v), 2, argv, 1) IN
        /\ scopes' = r.chain
        /\ vok' = (vok /\ r.ok)
    /\ vsteps' = vsteps + 1
    /\ UNCHANGED <<closures, prim, spc, compileVars, vmVars, emitVars, blockVars, parseVars>>

\* analyze_variable: load_var on the current validator.
ScopeAnalyzeVariable ==
    /\ Analysing /\ Top_k > 1
    /\ \E token \in LocalNames :
        LET r == add_symbol_in(scopes, Top_k, token) IN
        /\ scopes' = r.chain
        /\ vok' = (vok /\ r.i # -1)
    /\ vsteps' = vsteps + 1
    /\ UNCHANGED <<closures, prim, spc, compileVars, vmVars, emitVars, blockVars, parseVars>>

\* analyze_scope, analyze_if, analyze_while: init_validator of a child.
ScopeEnter ==
    /\ Analysing /\ Top_k > 1
    /\ scopes' = Append(scopes, Enclosed(scopes, Top_k))
    /\ vsteps' = vsteps + 1
    /\ UNCHANGED <<closures, prim, spc, vok, compileVars, vmVars, emitVars, blockVars, parseVars>>

\* delete_validator at the end of a scope, a branch, a body or a function.
ScopeLeave ==
    /\ Analysing /\ Top_k > 1
    /\ scopes' = SubSeq(scopes, 1, Top_k - 1)
    /\ vsteps' = vsteps + 1
    /\ UNCHANGED <<closures, prim, spc, vok, compileVars, vmVars, emitVars, blockVars, parseVars>>

\* analyze_closure: add_symbol of its name, then a validator with count 0
\* and closure set, then the parameters.
ScopeAnalyzeClosure ==
    /\ Analysing /\ Top_k > 1
    /\ \E token \in LocalNames, argv \in {a \in ArgLists : Len(a) <= 1} :
        LET named == add_symbol_in(scopes, Top_k, token) IN
        IF named.i = -1
        THEN vok' = FALSE /\ UNCHANGED <<scopes, closures>>
        ELSE LET v == [Enclosed(named.chain, Top_k) EXCEPT
                          !.closure = Len(closures) + 1, !.count = 0,
                          !.root = TRUE, !.argv = argv]
                 r == LoadArgs(Append(named.chain, v), Top_k + 1, argv, 1) IN
             /\ scopes' = r.chain
             /\ closures' = Append(closures, <<>>)
             /\ vok' = (vok /\ r.ok)
    /\ vsteps' = vsteps + 1
    /\ UNCHANGED <<prim, spc, compileVars, vmVars, emitVars, blockVars, parseVars>>

\* analyze_primary; level is the validator that holds the symbol, at the
\* validator the primary is analysed under, own the validator of the
\* function the primary is in, slot the index of the symbol and frame the
\* number of slots of that function at this point; closure is the closure
\* the primary is in, parent the validator of the function that declares
\* that closure and outer the closure the parent is in.
ScopeAnalyzePrimary ==
    /\ Analysing /\ Top_k > 1
    /\ \E token \in LocalNames \cup {GlobalNames[i] : i \in 1..Len(GlobalNames)} :
        IF find_symbol(scopes, Top_k, token) = NoSymbol
        THEN vok' = FALSE /\ UNCHANGED <<closures, prim, spc>>
        ELSE LET r == analyze_primary(scopes, closures, Top_k, token) IN
             /\ prim' = [token |-> token, index |-> r.expr.index,
                         is_global |-> r.expr.is_global, upvalue |-> r.expr.upvalue,
                         level |-> Level(scopes, Top_k, token), at |-> Top_k,
                         own |-> Root(scopes, Top_k),
                         slot |-> find_symbol(scopes, Top_k, token).index,
                         frame |-> scopes[Top_k].count,
                         closure |-> scopes[Top_k].closure,
                         parent |-> Root(scopes, Root(scopes, Top_k) - 1),
                         outer |-> scopes[Root(scopes, Root(scopes, Top_k) - 1)].closure]
             /\ closures' = r.cls
             /\ spc' = IF r.crash THEN "crashed" ELSE spc
             /\ vok' = vok
    /\ vsteps' = vsteps + 1
    /\ UNCHANGED <<scopes, compileVars, vmVars, emitVars, blockVars, parseVars>>

(***************************************************************************)
(* THE PARSER, TOKEN BY TOKEN                                              *)
(*                                                                         *)
(* scanner is the sequence of token types mtr_next_token returns, with     *)
(* MTR_TOKEN_EOF for ever after its end; mtr_parser is struct mtr_parser   *)
(* with next the position of the scanner, reports the number of calls of   *)
(* mtr_report_error and expr the type of the expression parsed last.  The  *)
(* function header, the expression statement and the lists are parsed as   *)
(* the code parses them; what the rest of the grammar asks for at each     *)
(* token is an input: it takes the current token or expects another one.   *)
(***************************************************************************)
MaxTokens == 4

\* The capacity of the arrays of func_decl, call, array_literal, map_literal.
MaxArgs == 255

\* The capacity of the arrays of union_type and struct_type.
UINT16_MAX == 65535

MaxBody == 4

ListSizes == {1, MaxArgs - 1, MaxArgs, MaxArgs + 1, MaxArgs + 2}

TokenTypes == {"IDENTIFIER", "TYPE", "FN", "CURLY_L", "COMMENT", "INVALID"}

\* n times the tokens of one element, with a comma between two elements.
Separated(element, n) ==
    LET period == Len(element) + 1 IN
    [i \in 1..(n * period - 1) |->
        IF i % period = 0 THEN "COMMA" ELSE element[i % period]]

\* fn f(Int a, ..., Int a) {
FuncStream(n) ==
    <<"FN", "IDENTIFIER", "PAREN_L">> \o Separated(<<"INT", "IDENTIFIER">>, n)
        \o <<"PAREN_R", "CURLY_L">>

\* fn f() { f(a, ..., a); }
CallStream(n) ==
    <<"FN", "IDENTIFIER", "PAREN_L", "PAREN_R", "CURLY_L", "IDENTIFIER", "PAREN_L">>
        \o Separated(<<"IDENTIFIER">>, n) \o <<"PAREN_R", "SEMICOLON", "CURLY_R">>

\* fn f() { a := [a, ..., a]; }
ArrayStream(n) ==
    <<"FN", "IDENTIFIER", "PAREN_L", "PAREN_R", "CURLY_L", "IDENTIFIER", "ASSIGN", "SQR_L">>
        \o Separated(<<"IDENTIFIER">>, n) \o <<"SQR_R", "SEMICOLON", "CURLY_R">>

\* fn f() { a := {a: a, ..., a: a}; }
MapStream(n) ==
    <<"FN", "IDENTIFIER", "PAREN_L", "PAREN_R", "CURLY_L", "IDENTIFIER", "ASSIGN", "CURLY_L">>
        \o Separated(<<"IDENTIFIER", "COLON", "IDENTIFIER">>, n)
        \o <<"CURLY_R", "SEMICOLON", "CURLY_R">>

ListStreams ==
    UNION {{FuncStream(n), CallStream(n), ArrayStream(n), MapStream(n)} : n \in ListSizes}

Streams == SeqsUpTo(TokenTypes, MaxTokens)

\* type T := and the tokens of a body.
BodyTokens ==
    {"CURLY_L", "CURLY_R", "SQR_L", "SQR_R", "INT", "IDENTIFIER", "SEMICOLON", "PIPE",
     "COMMA"}

TypeHead == <<"TYPE", "IDENTIFIER", "ASSIGN">>

TypeStreams == {TypeHead \o body : body \in SeqsUpTo(BodyTokens, MaxBody)}

\* fn f() { and the tokens of its first statements.
FnHead == <<"FN", "IDENTIFIER", "PAREN_L", "PAREN_R", "CURLY_L">>

StatementTokens == {"IDENTIFIER", "COMMENT", "ASSIGN", "SEMICOLON"}

StatementStreams == {FnHead \o body : body \in SeqsUpTo(StatementTokens, MaxTokens)}

\* mtr_next_token on the scanner of p.
NextToken(p) ==
    [p EXCEPT !.token = IF p.next > Len(scanner) THEN "EOF" ELSE scanner[p.next],
              !.next = IF p.next > Len(scanner) THEN p.next ELSE p.next + 1]

\* parser_error, with the report counted.
report_error(p) ==
    [p EXCEPT !.had_error = TRUE, !.panic = TRUE,
              !.reports = IF p.panic THEN p.reports ELSE p.reports + 1]

RECURSIVE SkipComments(_)
SkipComments(p) == IF p.token = "COMMENT" THEN SkipComments(NextToken(p)) ELSE p

RECURSIVE SkipInvalid(_)
SkipInvalid(p) ==
    IF p.token = "INVALID" THEN SkipInvalid(NextToken(report_error(p))) ELSE p

\* advance: the next token, then the comments, then the invalid tokens.
advance(p) == SkipInvalid(SkipComments(NextToken(p)))

\* consume
consume(p, type) == IF p.token = type THEN advance(p) ELSE report_error(p)

SyncTokens == {"INT", "FLOAT", "BOOL", "FN", "IF", "WHILE", "CURLY_L", "CURLY_R"}

\* The loop of synchronize, by its result: advance passes comments and
\* reports invalid tokens, so the loop ends at the first of the eight
\* tokens at or after the current one, or at the end of input, and
\* parser_error has been called if an invalid token lies in between.
SkipToSync(p) ==
    IF p.token = "EOF" \/ p.token \in SyncTokens THEN p
    ELSE LET stops == {j \in p.next..Len(scanner) : scanner[j] \in SyncTokens}
             stop == IF stops = {} THEN Len(scanner) + 1
                     ELSE CHOOSE j \in stops : \A k \in stops : j <= k
             q == IF \E i \in p.next..(stop - 1) : scanner[i] = "INVALID"
                  THEN report_error(p) ELSE p IN
         [q EXCEPT !.token = IF stop > Len(scanner) THEN "EOF" ELSE scanner[stop],
                   !.next = IF stop > Len(scanner) THEN stop ELSE stop + 1]

\* synchronize of the token-level parser
resynchronize(p) == IF ~p.panic THEN p ELSE SkipToSync([p EXCEPT !.panic = FALSE])

\* The test of the loops of func_decl, call, array_literal and map_literal.
ListFullMut(count) == count >= MaxArgs + 1
ListFull(count) == count >= MaxArgs

\* parse_precedence on the tokens of the streams: an identifier, an array
\* literal or a map literal, then the calls and subscripts that follow.
\* ListLoop is the loop of call, array_literal and map_literal.
RECURSIVE parse_precedence(_)
RECURSIVE ListLoop(_, _, _, _)
RECURSIVE Infix(_)
ListLoop(p, closer, pairs, count) ==
    IF ListFull(count) THEN p
    ELSE LET k == parse_precedence(p)
             v == IF pairs THEN parse_precedence(consume(k, "COLON")) ELSE k IN
         IF v.token = closer THEN advance(v)
         ELSE IF v.token = "COMMA" THEN ListLoop(advance(v), closer, pairs, count + 1)
         ELSE report_error(v)

Infix(p) ==
    IF p.token = "PAREN_L"
    THEN LET q == advance(p)
             args == IF q.token = "PAREN_R" THEN advance(q)
                     ELSE ListLoop(q, "PAREN_R", FALSE, 0) IN
         Infix([args EXCEPT !.expr = "MTR_EXPR_CALL"])
    ELSE IF p.token = "SQR_L"
    THEN LET e == parse_precedence(advance(p)) IN
         Infix([consume(e, "SQR_R") EXCEPT !.expr = "MTR_EXPR_SUBSCRIPT"])
    ELSE p

parse_precedence(p) ==
    LET q == advance(p) IN
    IF p.token = "IDENTIFIER" THEN Infix([q EXCEPT !.expr = "MTR_EXPR_PRIMARY"])
    ELSE IF p.token = "SQR_L"
    THEN Infix([ListLoop(q, "SQR_R", FALSE, 0) EXCEPT !.expr = "MTR_EXPR_ARRAY_LITERAL"])
    ELSE IF p.token = "CURLY_L"
    THEN Infix([ListLoop(q, "CURLY_R", TRUE, 0) EXCEPT !.expr = "MTR_EXPR_MAP_LITERAL"])
    ELSE IF p.token = "PAREN_L"
    THEN Infix([consume(parse_precedence(q), "PAREN_R") EXCEPT !.expr = "MTR_EXPR_GROUPING"])
    ELSE [report_error(q) EXCEPT !.expr = "NULL"]

\* parse_var_type on the tokens of the streams: a type name, an array type
\* [T] or a map type [K, V]; any other token is no type expression.
\* function_type after its '(' : the loop over the types of the
\* parameters, then the return type after an arrow.
RECURSIVE parse_var_typeMut(_)
RECURSIVE parse_var_type(_)
RECURSIVE TypesLoop(_, _)
TypesLoop(p, argc) ==
    IF ListFull(argc) THEN p
    ELSE LET v == parse_var_type(p) IN
         IF v.token = "PAREN_R" THEN advance(v)
         ELSE IF v.token = "COMMA" THEN TypesLoop(advance(v), argc + 1)
         ELSE report_error(v)

function_type(p) ==
    LET types == IF p.token = "PAREN_R" THEN advance(p) ELSE TypesLoop(p, 0) IN
    IF types.token = "ARROW" THEN parse_var_type(advance(types)) ELSE types

parse_var_typeMut(p) ==
    IF p.token \in {"INT", "IDENTIFIER"} THEN advance(p)
    ELSE IF p.token = "SQR_L"
    THEN LET type1 == parse_var_typeMut(advance(p))
             type2 == IF type1.token = "COMMA" THEN parse_var_typeMut(advance(type1))
                      ELSE type1 IN
         consume(type2, "SQR_R")
    ELSE IF p.token = "PAREN_L" THEN function_type(advance(p))
    ELSE p
parse_var_type(p) ==
    IF p.token \in {"INT", "IDENTIFIER"} THEN advance(p)
    ELSE IF p.token = "SQR_L"
    THEN LET type1 == parse_var_type(advance(p))
             type2 == IF type1.token = "COMMA" THEN parse_var_type(advance(type1))
                      ELSE type1 IN
         consume(type2, "SQR_R")
    ELSE IF p.token = "PAREN_L" THEN function_type(advance(p))
    ELSE report_error(p)

\* variable
variable(p) ==
    LET name == consume(parse_var_type(p), "IDENTIFIER")
        value == IF name.token = "ASSIGN" THEN parse_precedence(advance(name)) ELSE name IN
    consume(value, "SEMICOLON")

\* The loops of union_type and struct_type: the parser and argc after them.
RECURSIVE UnionLoop(_, _)
UnionLoop(p, argc) ==
    IF argc >= UINT16_MAX THEN [p |-> p, argc |-> argc]
    ELSE LET v == parse_var_type(p) IN
         IF v.token = "SQR_R" THEN [p |-> advance(v), argc |-> argc + 1]
         ELSE IF v.token = "PIPE" THEN UnionLoop(advance(v), argc + 1)
         ELSE [p |-> report_error(v), argc |-> argc + 1]

RECURSIVE StructLoop(_, _)
StructLoop(p, argc) ==
    IF argc >= UINT16_MAX THEN [p |-> p, argc |-> argc]
    ELSE LET v == variable(p) IN
         IF v.token = "CURLY_R" THEN [p |-> advance(v), argc |-> argc + 1]
         ELSE IF v.token = "COMMA" THEN StructLoop(advance(v), argc + 1)
         ELSE [p |-> report_error(v), argc |-> argc + 1]

\* union_type and struct_type after their loops: the tests of argc.
CheckCount(r) ==
    LET empty == IF r.argc = 0 THEN report_error(r.p) ELSE r.p IN
    IF r.argc > MaxArgs THEN report_error(empty) ELSE empty

union_type(p) == CheckCount(UnionLoop(advance(p), 0))

struct_type(p) == CheckCount(StructLoop(advance(p), 0))

\* type: the parser after it and the statement it returns.
type_decl(p) ==
    LET name == consume(consume(advance(p), "IDENTIFIER"), "ASSIGN") IN
    IF name.token = "SQR_L" THEN [p |-> union_type(name), stmt |-> "MTR_STMT_UNION"]
    ELSE IF name.token = "CURLY_L" THEN [p |-> struct_type(name), stmt |-> "MTR_STMT_STRUCT"]
    ELSE [p |-> report_error(name), stmt |-> "NULL"]

\* One iteration of the loop of func_decl (params), call, array_literal or
\* map_literal, up to the test of what follows the element.
Iteration(p, kind) ==
    IF kind = "params" THEN consume(parse_var_type(p), "IDENTIFIER")
    ELSE IF kind = "map" THEN parse_precedence(consume(parse_precedence(p), "COLON"))
    ELSE parse_precedence(p)

Closer(kind) ==
    IF kind = "array" THEN "SQR_R" ELSE IF kind = "map" THEN "CURLY_R" ELSE "PAREN_R"

\* func_decl after its parameters, for a body that is a block: the return
\* type and the '{' of block.
func_body(p) ==
    consume(IF p.token = "ARROW" THEN parse_var_type(advance(p)) ELSE p, "CURLY_L")

\* expr_stmt after its first expression: the assignment or the call, and
\* the ';'.
expr_stmt_rest(e) ==
    consume(IF e.expr \in {"MTR_EXPR_PRIMARY", "MTR_EXPR_SUBSCRIPT"}
            THEN parse_precedence(consume(e, "ASSIGN"))
            ELSE IF e.expr = "MTR_EXPR_CALL" THEN e
            ELSE report_error(e), "SEMICOLON")

\* What the parser does when the loop of a list ends.
AfterList(p, kind) ==
    IF kind = "params" THEN func_body(p)
    ELSE IF kind = "call" THEN expr_stmt_rest(Infix([p EXCEPT !.expr = "MTR_EXPR_CALL"]))
    ELSE IF kind = "array"
         THEN consume(Infix([p EXCEPT !.expr = "MTR_EXPR_ARRAY_LITERAL"]), "SEMICOLON")
    ELSE consume(Infix([p EXCEPT !.expr = "MTR_EXPR_MAP_LITERAL"]), "SEMICOLON")

\* peek of the parser as declaration uses it: the token the scanner returns next.
parser_peek(p) == NextToken(p).token

\* mtr_parser_init
mtr_parser_init ==
    [next |-> 1, token |-> "NONE", had_error |-> FALSE, panic |-> FALSE, reports |-> 0,
     expr |-> "NONE"]

\* The index of the current token and had_error, before a step.
Started(p) == [at |-> p.next - 1, had_error |-> p.had_error]

NoList == [kind |-> "none", count |-> 0]

ParserIdle ==
    /\ scanner = <<>>
    /\ mtr_parser = mtr_parser_init
    /\ ppc = "idle"
    /\ plast = "none"
    /\ pfrom = Started(mtr_parser_init)
    /\ ploop = NoList

ParserStart ==
    /\ scanner \in Streams
    /\ mtr_parser = mtr_parser_init
    /\ ppc = "start"
    /\ plast = "none"
    /\ pfrom = Started(mtr_parser_init)
    /\ ploop = NoList

\* The test of the loop of mtr_parse.
LoopTest(p) == IF p.token = "EOF" THEN "done" ELSE "declaration"

\* mtr_parse: its first advance.
ParserBegin ==
    /\ ppc = "start"
    /\ mtr_parser' = advance(mtr_parser)
    /\ ppc' = LoopTest(mtr_parser')
    /\ pfrom' = Started(mtr_parser)
    /\ plast' = "advance"
    /\ UNCHANGED <<scanner, ploop, compileVars, vmVars, emitVars, blockVars, scopeVars>>

\* global_declaration on any token but fn and type: parser_error, exit(-1).
ParserStray ==
    /\ ppc = "declaration"
    /\ mtr_parser.token \notin {"FN", "TYPE"}
    /\ mtr_parser' = report_error(mtr_parser)
    /\ ppc' = "exited"
    /\ pfrom' = Started(mtr_parser)
    /\ plast' = "parser_error"
    /\ UNCHANGED <<scanner, ploop, compileVars, vmVars, emitVars, blockVars, scopeVars>>

\* global_declaration: func_decl and type start with advance.
ParserDeclaration ==
    /\ ppc = "declaration"
    /\ mtr_parser.token \in {"FN", "TYPE"}
    /\ mtr_parser' = advance(mtr_parser)
    /\ ppc' = "inside"
    /\ pfrom' = Started(mtr_parser)
    /\ plast' = "advance"
    /\ UNCHANGED <<scanner, ploop, compileVars, vmVars, emitVars, blockVars, scopeVars>>

\* global_declaration: func_decl of a function whose body is a block, up
\* to the loop over its parameters or, without parameters, to the '{'.
ParserFuncDecl ==
    /\ ppc = "declaration"
    /\ mtr_parser.token = "FN"
    /\ pfrom' = Started(mtr_parser)
    /\ LET open == consume(consume(advance(mtr_parser), "IDENTIFIER"), "PAREN_L") IN
       IF open.token = "PAREN_R"
       THEN /\ mtr_parser' = func_body(advance(open))
            /\ ppc' = "inside"
            /\ plast' = "func_decl"
            /\ ploop' = NoList
       ELSE /\ mtr_parser' = open
            /\ ppc' = "list"
            /\ plast' = "advance"
            /\ ploop' = [kind |-> "params", count |-> 0]
    /\ UNCHANGED <<scanner, compileVars, vmVars, emitVars, blockVars, scopeVars>>

\* declaration at an identifier that no identifier follows: expr_stmt, up
\* to the loop of the call or of the literal it starts with, or to its ';'.
ParserExprStmt ==
    /\ ppc = "inside"
    /\ mtr_parser.token = "IDENTIFIER"
    /\ parser_peek(mtr_parser) # "IDENTIFIER"
    /\ pfrom' = Started(mtr_parser)
    /\ LET e == [advance(mtr_parser) EXCEPT !.expr = "MTR_EXPR_PRIMARY"]
           a == consume(e, "ASSIGN") IN
       IF e.token = "PAREN_L" /\ advance(e).token # "PAREN_R"
       THEN /\ mtr_parser' = advance(e)
            /\ ppc' = "list"
            /\ plast' = "advance"
            /\ ploop' = [kind |-> "call", count |-> 0]
       ELSE IF e.token \notin {"PAREN_L", "SQR_L"} /\ a.token \in {"SQR_L", "CURLY_L"}
       THEN /\ mtr_parser' = advance(a)
            /\ ppc' = "list"
            /\ plast' = "advance"
            /\ ploop' = [kind |-> IF a.token = "SQR_L" THEN "array" ELSE "map", count |-> 0]
       ELSE /\ mtr_parser' = expr_stmt_rest(Infix(e))
            /\ ppc' = "inside"
            /\ plast' = "expr_stmt"
            /\ ploop' = NoList
    /\ UNCHANGED <<scanner, compileVars, vmVars, emitVars, blockVars, scopeVars>>

\* declaration at an identifier that peek finds followed by an identifier:
\* variable.
ParserVariable ==
    /\ ppc = "inside"
    /\ mtr_parser.token = "IDENTIFIER"
    /\ parser_peek(mtr_parser) = "IDENTIFIER"
    /\ pfrom' = Started(mtr_parser)
    /\ mtr_parser' = variable(mtr_parser)
    /\ plast' = "variable"
    /\ UNCHANGED <<scanner, ploop, ppc, compileVars, vmVars, emitVars, blockVars, scopeVars>>

\* One iteration of the loop of func_decl, call, array_literal or
\* map_literal and the test of the loop; when the loop ends, the rest of
\* func_decl or of expr_stmt.
ParserListStep ==
    /\ ppc = "list"
    /\ LET v == Iteration(mtr_parser, ploop.kind)
           closed == v.token = Closer(ploop.kind)
           cont == v.token = "COMMA"
           q == IF closed THEN advance(v) ELSE consume(v, "COMMA") IN
       IF ~closed /\ cont /\ ~ListFull(ploop.count + 1)
       THEN /\ mtr_parser' = q
            /\ ploop' = [ploop EXCEPT !.count = @ + 1]
            /\ UNCHANGED <<ppc, plast>>
       ELSE /\ mtr_parser' = AfterList(q, ploop.kind)
            /\ ploop' = NoList
            /\ ppc' = "inside"
            /\ plast' = IF ploop.kind = "params" THEN "func_decl" ELSE "expr_stmt"
    /\ UNCHANGED <<scanner, pfrom, compileVars, vmVars, emitVars, blockVars, scopeVars>>

\* One iteration of the loop of mtr_parse on a type declaration:
\* global_declaration, the return on NULL, synchronize and the test.
ParserType ==
    /\ ppc = "declaration"
    /\ mtr_parser.token = "TYPE"
    /\ pfrom' = Started(mtr_parser)
    /\ LET r == type_decl(mtr_parser) IN
       /\ mtr_parser' = IF r.stmt = "NULL" THEN r.p ELSE resynchronize(r.p)
       /\ ppc' = IF r.stmt = "NULL" THEN "done" ELSE LoopTest(mtr_parser')
       /\ plast' = r.stmt
    /\ UNCHANGED <<scanner, ploop, compileVars, vmVars, emitVars, blockVars, scopeVars>>

\* Inside a declaration the grammar takes the current token: advance, or
\* consume of the type of the current token.
ParserTake ==
    /\ ppc = "inside"
    /\ mtr_parser.token # "EOF"
    /\ mtr_parser' = consume(mtr_parser, mtr_parser.token)
    /\ pfrom' = Started(mtr_parser)
    /\ plast' = "advance"
    /\ UNCHANGED <<scanner, ploop, ppc, compileVars, vmVars, emitVars, blockVars, scopeVars>>

\* Inside a declaration the grammar expects a token that is not there:
\* consume of another type, or parser_error.
ParserExpect ==
    /\ ppc = "inside"
    /\ \E type \in (TokenTypes \cup {"EOF"}) \ {mtr_parser.token, "COMMENT", "INVALID"} :
        mtr_parser' = consume(mtr_parser, type)
    /\ pfrom' = Started(mtr_parser)
    /\ plast' = "parser_error"
    /\ UNCHANGED <<scanner, ploop, ppc, compileVars, vmVars, emitVars, blockVars, scopeVars>>

\* mtr_parse: global_declaration has returned a statement; synchronize,
\* write_block and the test of the loop.
ParserSynchronize ==
    /\ ppc = "inside"
    /\ mtr_parser' = resynchronize(mtr_parser)
    /\ ppc' = LoopTest(mtr_parser')
    /\ pfrom' = Started(mtr_parser)
    /\ plast' = "synchronize"
    /\ UNCHANGED <<scanner, ploop, compileVars, vmVars, emitVars, blockVars, scopeVars>>

(***************************************************************************)
(* THE LOOPS OF THE PARSER                                                 *)
(*                                                                         *)
(* mtr_parse step by step on any short stream: one action per iteration of *)
(* the loop of mtr_parse, of block, of synchronize and of the lists that   *)
(* start a statement or follow the name of a function.  ploop.depth is the *)
(* number of blocks that are open.                                         *)
(***************************************************************************)
MaxStream == 3

LoopTokens ==
    {"FN", "IDENTIFIER", "PAREN_L", "PAREN_R", "SQR_L", "SQR_R", "CURLY_L", "CURLY_R",
     "SEMICOLON", "ASSIGN", "COMMA"}

LoopStreams ==
    SeqsUpTo(LoopTokens, MaxStream)
        \cup {FnHead \o body : body \in SeqsUpTo(LoopTokens, MaxStream)}

Depth == ploop.depth

Opened(depth) == [kind |-> "none", count |-> 0, depth |-> depth]

\* The test of the loop of mtr_parse, or the loop of block that goes on.
LoopAt(p, depth) == IF depth = 0 THEN LoopTest(p) ELSE "block"

\* A step of the parser: the parser after it, where it stands and the
\* list and blocks it is in.
Parsed(p, pc, loop, what) ==
    /\ mtr_parser' = p
    /\ ppc' = pc
    /\ ploop' = loop
    /\ pfrom' = Started(mtr_parser)
    /\ plast' = what
    /\ UNCHANGED <<scanner, compileVars, vmVars, emitVars, blockVars, scopeVars>>

\* global_declaration or declaration has returned to the loop of
\* mtr_parse or of block: synchronize returns at once without panic, else
\* clears it and enters its loop.
DeclarationReturns(p, depth, what) ==
    IF p.panic
    THEN Parsed([p EXCEPT !.panic = FALSE], "synchronize", Opened(depth), what)
    ELSE Parsed(p, LoopAt(p, depth), Opened(depth), what)

\* func_decl after its parameters: fn f(...) := e; or the block of the body,
\* whose consume of '{' may fail.
FunctionRest(p, depth, what) ==
    IF p.token = "ASSIGN"
    THEN DeclarationReturns(consume(parse_precedence(advance(p)), "SEMICOLON"), depth, what)
    ELSE Parsed(consume(p, "CURLY_L"), "block", Opened(depth + 1), what)

\* mtr_parser_init(parser, source) on one of the streams.
LoopSource ==
    /\ ppc = "idle"
    /\ scanner' \in LoopStreams
    /\ mtr_parser' = mtr_parser_init
    /\ ppc' = "start"
    /\ UNCHANGED <<plast, pfrom, ploop, compileVars, vmVars, emitVars, blockVars, scopeVars>>

\* func_decl, from global_declaration or from closure in a block, up to the
\* loop over its parameters or to its body.
LoopFuncDecl ==
    /\ ppc \in {"declaration", "block"}
    /\ mtr_parser.token = "FN"
    /\ LET open == consume(consume(advance(mtr_parser), "IDENTIFIER"), "PAREN_L") IN
       IF open.token = "PAREN_R"
       THEN FunctionRest(advance(open), Depth, "func_decl")
       ELSE Parsed(open, "list", [kind |-> "params", count |-> 0, depth |-> Depth], "advance")

\* The loop of block ends at '}' or at the end of the input: consume of
\* '}', and the statement is returned to the loop around it.
LoopBlockEnd ==
    /\ ppc = "block"
    /\ mtr_parser.token \in {"CURLY_R", "EOF"}
    /\ DeclarationReturns(consume(mtr_parser, "CURLY_R"), Depth - 1, "block")

\* declaration at '{': statement, scope, block.
LoopScope ==
    /\ ppc = "block"
    /\ mtr_parser.token = "CURLY_L"
    /\ Parsed(consume(mtr_parser, "CURLY_L"), "block", Opened(Depth + 1), "scope")

\* declaration at a type expression: variable.
LoopVariable ==
    /\ ppc = "block"
    /\ \/ mtr_parser.token \in {"SQR_L", "PAREN_L"}
       \/ mtr_parser.token = "IDENTIFIER" /\ parser_peek(mtr_parser) = "IDENTIFIER"
    /\ DeclarationReturns(variable(mtr_parser), Depth, "variable")

\* declaration at an identifier that no identifier follows: expr_stmt, up
\* to the loop of the call or of the literal it starts with, or to its ';'.
LoopExprStmt ==
    /\ ppc = "block"
    /\ mtr_parser.token = "IDENTIFIER"
    /\ parser_peek(mtr_parser) # "IDENTIFIER"
    /\ LET e == [advance(mtr_parser) EXCEPT !.expr = "MTR_EXPR_PRIMARY"]
           a == consume(e, "ASSIGN") IN
       IF e.token = "PAREN_L" /\ advance(e).token # "PAREN_R"
       THEN Parsed(advance(e), "list", [kind |-> "call", count |-> 0, depth |-> Depth], "advance")
       ELSE IF e.token \notin {"PAREN_L", "SQR_L"} /\ a.token \in {"SQR_L", "CURLY_L"}
       THEN Parsed(advance(a), "list",
                   [kind |-> IF a.token = "SQR_L" THEN "array" ELSE "map", count |-> 0,
                    depth |-> Depth], "advance")
       ELSE DeclarationReturns(expr_stmt_rest(Infix(e)), Depth, "expr_stmt")

\* What expr_stmt does with the NULL of parse_precedence: switch
\* (expr->type) reads through it, so the process ends there or the read
\* yields any type and one of the cases of the switch runs.
NullOutcomes == {"crashed", "MTR_EXPR_PRIMARY", "MTR_EXPR_CALL", "MTR_EXPR_UNARY"}

\* declaration at a token no expression starts with: parse_precedence
\* takes it, reports and returns NULL to expr_stmt.
LoopNoPrefix ==
    /\ ppc = "block"
    /\ mtr_parser.token \in {"PAREN_R", "SQR_R", "SEMICOLON", "ASSIGN", "COMMA"}
    /\ LET e == parse_precedence(mtr_parser) IN
       \E outcome \in NullOutcomes :
          IF outcome = "crashed" THEN Parsed(e, "crashed", ploop, "expr_stmt")
          ELSE DeclarationReturns(expr_stmt_rest([e EXCEPT !.expr = outcome]), Depth,
                                  "expr_stmt")

\* One iteration of the loop of func_decl, call, array_literal or
\* map_literal and the test of the loop; when the loop ends, the rest of
\* func_decl or of expr_stmt.
LoopListStep ==
    /\ ppc = "list"
    /\ LET v == Iteration(mtr_parser, ploop.kind)
           closed == v.token = Closer(ploop.kind)
           cont == v.token = "COMMA"
           q == IF closed THEN advance(v) ELSE consume(v, "COMMA") IN
       IF ~closed /\ cont /\ ~ListFull(ploop.count + 1)
       THEN Parsed(q, "list", [ploop EXCEPT !.count = @ + 1], plast)
       ELSE IF ploop.kind = "params" THEN FunctionRest(q, Depth, "func_decl")
       ELSE DeclarationReturns(AfterList(q, ploop.kind), Depth, "expr_stmt")

\* advance of the loop of synchronize.
SyncAdvanceMut(p) == p
SyncAdvance(p) == advance(p)

\* One iteration of the loop of synchronize: it ends at the end of the
\* input and at the tokens a statement starts with, else it advances.
LoopSynchronize ==
    /\ ppc = "synchronize"
    /\ IF mtr_parser.token = "EOF" \/ mtr_parser.token \in SyncTokens
       THEN Parsed(mtr_parser, LoopAt(mtr_parser, Depth), ploop, "synchronize")
       ELSE Parsed(SyncAdvance(mtr_parser), "synchronize", ploop, "advance")

(***************************************************************************)
(* THE SCANNER                                                             *)
(*                                                                         *)
(* mtr_next_token on the bytes of a source: the buffer is the source and   *)
(* its terminating NUL at index nul; the bytes after it are whatever lies  *)
(* behind the buffer, and a read after the last of them faults.  read is   *)
(* the highest index read so far.                                          *)
(***************************************************************************)
MaxSource == 3

MaxBehind == 2

MaxRequests == 3

Chars == {"a", "#", "'", " ", "\n", ";"}

BytesBehind == {"NUL", "a", "\n", "'"}

Buffers == {text \o <<"NUL">> : text \in SeqsUpTo(Chars, MaxSource)}

\* mtr_scanner_init(scanner, source)
mtr_scanner_init(text, behind) ==
    [memory |-> text \o behind, nul |-> Len(text), start |-> 1, current |-> 1,
     read |-> 0, fault |-> FALSE]

\* *c : the byte at c, read; a fault outside the memory of the process.
ByteAt(s, c) == IF c <= Len(s.memory) THEN s.memory[c] ELSE "NUL"

Reading(s, c) ==
    [s EXCEPT !.read = IF c > @ THEN c ELSE @, !.fault = @ \/ c > Len(s.memory)]

\* skip_whitespace
RECURSIVE skip_whitespace(_, _)
skip_whitespace(s, c) ==
    LET r == Reading(s, c) IN
    IF ~r.fault /\ ByteAt(s, c) \in {" ", "\n"} THEN skip_whitespace(r, c + 1)
    ELSE [r EXCEPT !.current = c]

\* make_token
make_token(s, type) ==
    [scanner |-> s, token |-> [type |-> type, start |-> s.start, length |-> s.current - s.start]]

\* scan_string: up to the closing quote, then past it.
RECURSIVE scan_string(_)
scan_string(s) ==
    LET r == Reading(s, s.current) IN
    IF r.fault THEN make_token(r, "STRING_LITERAL")
    ELSE IF ByteAt(s, s.current) # "'" THEN scan_string([r EXCEPT !.current = @ + 1])
    ELSE make_token([r EXCEPT !.current = @ + 1], "STRING_LITERAL")

\* scan_identifier: while the byte is a letter, a digit or '_'.
RECURSIVE scan_identifier(_)
scan_identifier(s) ==
    LET r == Reading(s, s.current) IN
    IF ~r.fault /\ ByteAt(s, s.current) = "a"
    THEN scan_identifier([r EXCEPT !.current = @ + 1])
    ELSE make_token(r, "IDENTIFIER")

\* scan_comment: up to the end of the line.
RECURSIVE scan_comment(_)
scan_comment(s) ==
    LET r == Reading(s, s.current) IN
    IF ~r.fault /\ ByteAt(s, s.current) # "\n"
    THEN scan_comment([r EXCEPT !.current = @ + 1])
    ELSE make_token(r, "COMMENT")

\* mtr_next_token: skip_whitespace, start = current, c_ = advance, then
\* the byte after c_ is read before the switch on c_.
mtr_next_token(s) ==
    LET w == skip_whitespace(s, s.current)
        c_ == ByteAt(w, w.current)
        a == Reading([w EXCEPT !.start = w.current, !.current = @ + 1], w.current + 1) IN
    IF w.fault \/ a.fault THEN make_token([a EXCEPT !.fault = TRUE], "INVALID")
    ELSE CASE c_ = ";" -> make_token(a, "SEMICOLON")
           [] c_ = "#" -> scan_comment(a)
           [] c_ = "'" -> scan_string(a)
           [] c_ = "a" -> scan_identifier(a)
           [] c_ = "NUL" -> make_token(a, "EOF")
           [] OTHER -> make_token(a, "INVALID")

NoToken == [type |-> "NONE", start |-> 1, length |-> 0]

\* mtr_scanner_init on a source and the bytes behind its buffer.
ScannerStart ==
    /\ \E buffer \in Buffers, behind \in SeqsUpTo(BytesBehind, MaxBehind) :
          scanner = mtr_scanner_init(buffer, behind)
    /\ mtr_parser = mtr_parser_init
    /\ ppc = "scanning"
    /\ plast = NoToken
    /\ pfrom = NoToken
    /\ ploop = NoList

\* A request for the next token; a read that faults ends the process and
\* no token is returned.
ScannerNextToken ==
    /\ ppc = "scanning"
    /\ ploop.count < MaxRequests
    /\ LET r == mtr_next_token(scanner) IN
       /\ scanner' = r.scanner
       /\ plast' = IF r.scanner.fault THEN plast ELSE r.token
       /\ pfrom' = IF r.scanner.fault THEN pfrom ELSE plast
       /\ ppc' = IF r.scanner.fault THEN "crashed" ELSE "scanning"
    /\ ploop' = [ploop EXCEPT !.count = @ + 1]
    /\ UNCHANGED <<mtr_parser, compileVars, vmVars, emitVars, blockVars, scopeVars>>

(***************************************************************************)
(* SPECIFICATIONS                                                          *)
(***************************************************************************)
CompileInit == CompileStart /\ VMIdle /\ EmitIdle /\ BlockIdle /\ ScopeIdle /\ ParserIdle

CompileNext ==
    \/ ParseDeclaration
    \/ ParseStrayExit
    \/ ParseEOF
    \/ CompileAfterParse
    \/ ValidateLoadGlobal
    \/ ValidateLoadDone
    \/ ValidateGlobalAnalysis
    \/ CompileAfterValidate
    \/ EmitStatement
    \/ EmitDone
    \/ CompileReturn

SpecCompile == CompileInit /\ [][CompileNext]_vars

\* The machine on chunks of stack, control and call instructions.
VMInit == VMStart /\ fuel = MaxSteps /\ CompileIdle /\ EmitIdle /\ BlockIdle /\ ScopeIdle /\ ParserIdle

VMNext ==
    \/ ExecuteLookup
    \/ ExecutePush
    \/ ExecuteCall
    \/ VmBool
    \/ VmGet
    \/ VmSet
    \/ VmJmpZ
    \/ VmPop
    \/ VmPopV
    \/ VmCall
    \/ VmReturn
    \/ VmChunkEnd

SpecVM == VMInit /\ [][VMNext]_vars

\* The machine on chunks of literal and index instructions.
ObjInit == VMStart /\ fuel = MaxObjSteps /\ CompileIdle /\ EmitIdle /\ BlockIdle /\ ScopeIdle /\ ParserIdle

ObjNext ==
    \/ ExecuteLookup
    \/ ExecutePush
    \/ ExecuteCall
    \/ VmInt
    \/ VmStringLiteral
    \/ VmArrayLiteral
    \/ VmMapLiteral
    \/ VmIndexGet
    \/ VmIndexSet
    \/ VmChunkEnd

SpecObjects == ObjInit /\ [][ObjNext]_vars

\* The emitter writing the jumps of one chunk, statement after statement.
JumpInit == EmitIdle /\ CompileIdle /\ VMIdle /\ BlockIdle /\ ScopeIdle /\ ParserIdle

JumpNext ==
    \/ WriteIf
    \/ WriteIfElse
    \/ WriteWhile
    \/ WriteLogic

SpecJump == JumpInit /\ [][JumpNext]_vars

\* One function validated, written and run with either value of its argument.
BlockInit ==
    /\ BlockStart
    /\ EmitIdle
    /\ CompileIdle
    /\ engine = [stack |-> EmptyStack, stack_top |-> 0, heap |-> <<>>, fatal |-> FALSE]
    /\ calls = <<>>
    /\ vpc = "idle"
    /\ vret = 0
    /\ pkg = <<>>
    /\ last = NoInstruction
    /\ fuel = MaxBlockSteps
    /\ ScopeIdle /\ ParserIdle

BlockNext ==
    \/ AnalyzeFn
    \/ WriteFn
    \/ CallFn
    \/ RunNil
    \/ RunFalse
    \/ RunGet
    \/ RunSet
    \/ RunJmpZ
    \/ RunJmp
    \/ RunPopV
    \/ RunEnd

SpecBlock == BlockInit /\ [][BlockNext]_vars

\* One function assigning an && or || validated, written and run with every
\* value of its two arguments.
LogicInit ==
    /\ LogicStart
    /\ EmitIdle
    /\ CompileIdle
    /\ engine = [stack |-> EmptyStack, stack_top |-> 0, heap |-> <<>>, fatal |-> FALSE]
    /\ calls = <<>>
    /\ vpc = "idle"
    /\ vret = 0
    /\ pkg = <<>>
    /\ last = NoInstruction
    /\ fuel = MaxBlockSteps
    /\ ScopeIdle /\ ParserIdle

LogicNext ==
    \/ AnalyzeFn
    \/ WriteFn
    \/ CallLogic
    \/ RunFalse
    \/ RunGet
    \/ RunAnd
    \/ RunOr
    \/ RunSet
    \/ RunPopV
    \/ RunEnd

SpecLogic == LogicInit /\ [][LogicNext]_vars

\* One function calling the function it is given, validated, written and
\* run; the callee returns a parameter or false.
CallInit ==
    /\ CallStart
    /\ EmitIdle
    /\ CompileIdle
    /\ engine = [stack |-> EmptyStack, stack_top |-> 0,
                 heap |-> <<mtr_new_function("g"), mtr_new_function("h")>>,
                 fatal |-> FALSE]
    /\ calls = <<>>
    /\ vpc = "idle"
    /\ vret = 0
    /\ pkg = <<>>
    /\ last = NoInstruction
    /\ fuel = MaxBlockSteps
    /\ ScopeIdle /\ ParserIdle

CallNext ==
    \/ AnalyzeFn
    \/ WriteFn
    \/ CallCaller
    \/ RunGet
    \/ RunInt
    \/ RunCall
    \/ CalleeGet
    \/ CalleeFalse
    \/ CalleeReturn
    \/ CalleeEnd
    \/ RunPop
    \/ RunPopV
    \/ RunEnd

SpecCall == CallInit /\ [][CallNext]_vars

\* One function declaring a local with an array or a map literal as its
\* value, validated, written and run.
LiteralInit ==
    /\ LiteralStart
    /\ EmitIdle
    /\ CompileIdle
    /\ engine = [stack |-> EmptyStack, stack_top |-> 0, heap |-> <<>>, fatal |-> FALSE]
    /\ calls = <<>>
    /\ vpc = "idle"
    /\ vret = 0
    /\ pkg = <<>>
    /\ last = NoInstruction
    /\ fuel = MaxBlockSteps
    /\ ScopeIdle /\ ParserIdle

LiteralNext ==
    \/ AnalyzeFn
    \/ WriteFn
    \/ CallPlain
    \/ RunInt
    \/ RunArrayLiteral
    \/ RunMapLiteral
    \/ RunPopV
    \/ RunEnd

SpecLiteral == LiteralInit /\ [][LiteralNext]_vars

\* mtr_validate on one function whose statements test conditions of every
\* type.
ConditionInit ==
    ConditionStart /\ EmitIdle /\ CompileIdle /\ VMIdle /\ ScopeIdle /\ ParserIdle

ConditionNext ==
    \/ ConditionAnalyze
    \/ ConditionReturn

SpecCondition == ConditionInit /\ [][ConditionNext]_vars

\* One function assigning a op b, validated, written and run, for every
\* operator and every type of a and of b.
BinaryInit ==
    /\ BinaryStart
    /\ EmitIdle
    /\ CompileIdle
    /\ engine = [stack |-> EmptyStack, stack_top |-> 0, heap |-> <<>>, fatal |-> FALSE]
    /\ calls = <<>>
    /\ vpc = "idle"
    /\ vret = 0
    /\ pkg = <<>>
    /\ last = NoInstruction
    /\ fuel = MaxBlockSteps
    /\ ScopeIdle /\ ParserIdle

BinaryNext ==
    \/ BinaryAnalyze
    \/ WriteFn
    \/ BinaryCall
    \/ RunGet
    \/ RunBinary
    \/ RunNot
    \/ RunAnd
    \/ RunOr
    \/ RunSet
    \/ RunPopV
    \/ RunEnd

SpecBinary == BinaryInit /\ [][BinaryNext]_vars

\* The validator walking function bodies the input supplies step by step.
ScopeInit == ScopeStart /\ CompileIdle /\ VMIdle /\ EmitIdle /\ BlockIdle /\ ParserIdle

ScopeNext ==
    \/ ScopeAnalyzeFn
    \/ ScopeAnalyzeVariable
    \/ ScopeEnter
    \/ ScopeLeave
    \/ ScopeAnalyzeClosure
    \/ ScopeAnalyzePrimary

SpecScope == ScopeInit /\ [][ScopeNext]_vars

\* mtr_parse on a token stream, the grammar's demands supplied step by step.
ParserInit ==
    ParserStart /\ CompileIdle /\ VMIdle /\ EmitIdle /\ BlockIdle /\ ScopeIdle

ParserNext ==
    \/ ParserBegin
    \/ ParserStray
    \/ ParserDeclaration
    \/ ParserFuncDecl
    \/ ParserExprStmt
    \/ ParserListStep
    \/ ParserTake
    \/ ParserExpect
    \/ ParserSynchronize

SpecParser == ParserInit /\ [][ParserNext]_vars

\* mtr_parse on a function with a long parameter list, or with a statement
\* that is a long call or assigns a long array or map literal, and on a
\* type declaration with any short body.
ListInit ==
    /\ scanner \in ListStreams \cup TypeStreams
    /\ mtr_parser = mtr_parser_init
    /\ ppc = "start"
    /\ plast = "none"
    /\ pfrom = Started(mtr_parser_init)
    /\ ploop = NoList
    /\ CompileIdle /\ VMIdle /\ EmitIdle /\ BlockIdle /\ ScopeIdle

ListNext ==
    \/ ParserBegin
    \/ ParserFuncDecl
    \/ ParserType
    \/ ParserExprStmt
    \/ ParserListStep

SpecLists == ListInit /\ [][ListNext]_vars

\* mtr_parse on a function whose body starts with identifiers, comments,
\* := and ;.
StatementInit ==
    /\ scanner \in StatementStreams
    /\ mtr_parser = mtr_parser_init
    /\ ppc = "start"
    /\ plast = "none"
    /\ pfrom = Started(mtr_parser_init)
    /\ ploop = NoList
    /\ CompileIdle /\ VMIdle /\ EmitIdle /\ BlockIdle /\ ScopeIdle

StatementNext ==
    \/ ParserBegin
    \/ ParserFuncDecl
    \/ ParserVariable
    \/ ParserExprStmt

SpecStatement == StatementInit /\ [][StatementNext]_vars

\* mtr_parser_init and mtr_parse on any short stream of the tokens of
\* functions, blocks, calls and literals; the parser takes its next step as
\* long as it has one.
LoopInit ==
    /\ scanner = <<>>
    /\ mtr_parser = mtr_parser_init
    /\ ppc = "idle"
    /\ plast = "none"
    /\ pfrom = Started(mtr_parser_init)
    /\ ploop = Opened(0)
    /\ CompileIdle /\ VMIdle /\ EmitIdle /\ BlockIdle /\ ScopeIdle

LoopNext ==
    \/ LoopSource
    \/ ParserBegin
    \/ ParserStray
    \/ LoopFuncDecl
    \/ LoopBlockEnd
    \/ LoopScope
    \/ LoopVariable
    \/ LoopExprStmt
    \/ LoopNoPrefix
    \/ LoopListStep
    \/ LoopSynchronize

SpecLoops == LoopInit /\ [][LoopNext]_vars /\ WF_vars(LoopNext)

\* The scanner asked for tokens, also after the end of the input, on every
\* short source and whatever lies behind its buffer.
ScannerInit ==
    ScannerStart /\ CompileIdle /\ VMIdle /\ EmitIdle /\ BlockIdle /\ ScopeIdle

ScannerNext == ScannerNextToken

SpecScanner == ScannerInit /\ [][ScannerNext]_vars

(***************************************************************************)
(* C1: compile runs parse, validate, emit in that order; when the parser   *)
(* recorded an error compile returns ParserError and neither validation    *)
(* nor emission ran; when validation failed it returns TypeError and       *)
(* emission did not run; emission runs only after both stages succeeded.   *)
(***************************************************************************)
IsPrefix(s, t) == Len(s) <= Len(t) /\ \A i \in 1..Len(s) : s[i] = t[i]

InStages(x) == \E i \in 1..Len(stages) : stages[i] = x

C2_NoProcessExit == cpc \notin {"exited", "crashed"}

(***************************************************************************)
(* C3: mtr_execute returns 0 when main ran to completion and -1 when the   *)
(* package has no callable named main.  As amended: a runtime fatal error  *)
(* does not make it return -1; the instruction calls exit(-1) and          *)
(* mtr_execute never returns.                                              *)
(***************************************************************************)
HasMain == mtr_package_get_function_by_name(pkg, "main") # 0

C3_RunResult ==
    /\ ~HasMain => (vpc \in {"execute", "returned"} /\ calls = <<>>)
    /\ (vpc = "returned" /\ ~HasMain) => vret = -1
    /\ (vpc = "returned" /\ HasMain) =>
          (vret = 0 /\ calls = <<>> /\ ~engine.fatal /\ last.depth = 1
             /\ last.op \in {"RETURN", "END"})
    /\ engine.fatal <=> vpc = "exited"
    /\ vpc = "exited" => vret = 0

C3_Witness == vpc = "exited" /\ engine.fatal /\ last.op = "BOOL" /\ Len(calls) = 2

\* C3 as stated: a runtime fatal error makes run return -1.
C3_FatalReturnsMinusOne == engine.fatal => (vpc = "returned" /\ vret = -1)

(***************************************************************************)
(* C4, as amended: mtr_execute first looks main up and returns -1 with an  *)
(* empty stack when it is absent; only then it pushes every callable in    *)
(* registration order, the callable of global slot i at stack position i,  *)
(* and calls main with argc = package.count (as the u8 of mtr_call), so    *)
(* that the frame of main is the base of the stack.                        *)
(***************************************************************************)
Prepopulated(n) ==
    \A i \in 0..(n - 1) : engine.stack[i] = MTR_OBJ_VAL(i + 1)
                            /\ engine.heap[i + 1].chunk = pkg[i + 1]

Ran(op) == fuel' # fuel /\ last'.op = op

C5_FrameModel ==
    [][ /\ Ran("CALL") =>
            /\ Len(calls') = Len(calls) + 1
            /\ Last(calls').frame = engine'.stack_top - last'.arg
            /\ engine'.stack_top = engine.stack_top - 1
        /\ (Ran("GET") /\ ~engine'.fatal) =>
            /\ engine'.stack_top = engine.stack_top + 1
            /\ Top(engine') = engine.stack[Frame + last'.arg]
        /\ Ran("SET") =>
            /\ engine'.stack_top = engine.stack_top - 1
            /\ engine'.stack[Frame + last'.arg] = Top(engine)
            /\ \A i \in DOMAIN engine.stack :
                  i # Frame + last'.arg => engine'.stack[i] = engine.stack[i]
        /\ Ran("RETURN") =>
            /\ ~engine'.fatal
            /\ engine'.stack_top = Frame + 1
            /\ engine'.stack[Frame] = Top(engine)
            /\ calls' = SubSeq(calls, 1, Len(calls) - 1)
        /\ Ran("POP_V") => engine'.stack_top = engine.stack_top - last'.arg
      ]_vars

C5_Witness ==
    /\ last.op = "RETURN" /\ last.frame = 1 /\ last.depth = 2
    /\ engine.stack_top = 2 /\ engine.stack[1] = MTR_INT_VAL(1)
    /\ vpc = "running"

(***************************************************************************)
(* C6: the stack never holds more than MTR_MAX_STACK values; a push on a   *)
(* full stack is fatal and stores nothing outside the array.               *)
(***************************************************************************)
C6_StackBounded ==
    /\ engine.stack_top <= MTR_MAX_STACK
    /\ DOMAIN engine.stack = 0..(MTR_MAX_STACK - 1)
    /\ engine.fatal => engine.stack_top = MTR_MAX_STACK

C6_Witness ==
    /\ engine.fatal /\ last.op = "BOOL"
    /\ engine.stack_top = MTR_MAX_STACK

(***************************************************************************)
(* C7: INDEX_GET on an array pushes elements[index] exactly when           *)
(* 0 <= index < size and is fatal for every other index, negative ones     *)
(* included; on a map it pushes the mapped value, NIL for an absent key.   *)
(***************************************************************************)
IndexedObject == engine.heap[last'.arg.ref]

C7_IndexGet ==
    [][ Ran("INDEX_GET") =>
          LET key == last'.arg.key
              object == IndexedObject IN
          /\ object.type = "MTR_OBJ_ARRAY" =>
                IF 0 <= key /\ key < Len(object.elements)
                THEN /\ ~engine'.fatal
                     /\ engine'.stack_top = engine.stack_top - 1
                     /\ Top(engine') = object.elements[key + 1]
                ELSE engine'.fatal
          /\ object.type = "MTR_OBJ_MAP" =>
                /\ ~engine'.fatal
                /\ engine'.stack_top = engine.stack_top - 1
                /\ Top(engine') = IF MTR_INT_VAL(key) \in DOMAIN object.table
                                  THEN object.table[MTR_INT_VAL(key)]
                                  ELSE MTR_NIL
          /\ engine'.heap = engine.heap
      ]_vars

C7_Witness ==
    /\ last.op = "INDEX_GET"
    /\ engine.heap[last.arg.ref].type = "MTR_OBJ_ARRAY"
    /\ Len(engine.heap[last.arg.ref].elements) = 2
    /\ last.arg.key = 1
    /\ ~engine.fatal
    /\ Top(engine) = engine.heap[last.arg.ref].elements[2]

(***************************************************************************)
(* C8: INDEX_SET on a string is fatal and changes no object; on an array   *)
(* it stores the value when the index is in bounds and is fatal otherwise; *)
(* on a map it inserts an absent key and overwrites a present one; when it *)
(* is not fatal it takes exactly the key, the object and the value off the *)
(* stack.                                                                  *)
(***************************************************************************)
OthersUnchanged(ref) ==
    /\ Len(engine'.heap) = Len(engine.heap)
    /\ \A r \in DOMAIN engine.heap : r # ref => engine'.heap[r] = engine.heap[r]

C8_IndexSet ==
    [][ Ran("INDEX_SET") =>
          LET key == last'.arg.key
              ref == last'.arg.ref
              object == IndexedObject
              val == peek(engine, 2) IN
          /\ object.type = "MTR_OBJ_STRING" =>
                (engine'.fatal /\ engine'.heap = engine.heap)
          /\ object.type = "MTR_OBJ_ARRAY" =>
                IF 0 <= key /\ key < Len(object.elements)
                THEN /\ ~engine'.fatal
                     /\ engine'.heap[ref].elements[key + 1] = val
                     /\ Len(engine'.heap[ref].elements) = Len(object.elements)
                     /\ \A i \in 1..Len(object.elements) : i # key + 1 =>
                           engine'.heap[ref].elements[i] = object.elements[i]
                     /\ OthersUnchanged(ref)
                ELSE engine'.fatal /\ engine'.heap = engine.heap
          /\ object.type = "MTR_OBJ_MAP" =>
                /\ ~engine'.fatal
                /\ DOMAIN engine'.heap[ref].table =
                      DOMAIN object.table \cup {MTR_INT_VAL(key)}
                /\ engine'.heap[ref].table[MTR_INT_VAL(key)] = val
                /\ \A k \in DOMAIN object.table : k # MTR_INT_VAL(key) =>
                      engine'.heap[ref].table[k] = object.table[k]
                /\ OthersUnchanged(ref)
          /\ ~engine'.fatal =>
                /\ engine'.stack_top = engine.stack_top - 3
                /\ engine'.stack = engine.stack
      ]_vars

C8_Witness ==
    /\ last.op = "INDEX_SET"
    /\ ~engine.fatal
    /\ engine.heap[last.arg.ref].type = "MTR_OBJ_ARRAY"
    /\ Len(engine.heap[last.arg.ref].elements) = 2
    /\ last.arg.key = 1
    /\ engine.heap[last.arg.ref].elements = <<MTR_INT_VAL(0), MTR_INT_VAL(-1)>>

(***************************************************************************)
(* C9: every forward JMP, JMP_Z, AND and OR has its placeholder rewritten  *)
(* to target - site - 2, and the instruction pointer just past the two     *)
(* operand bytes plus that offset is the intended target, inside the       *)
(* chunk, whatever the size of the code jumped over.                       *)
(***************************************************************************)
C9_ForwardJumpsLand ==
    \A i \in 1..Len(chunk.jumps) :
        LET j == chunk.jumps[i] IN
        /\ j.operand \in DOMAIN chunk.words
        /\ chunk.words[j.operand] = j.target - j.operand - 2
        /\ Landing(chunk, j.operand) = j.target
        /\ 0 <= Landing(chunk, j.operand)
        /\ Landing(chunk, j.operand) <= chunk.size

(***************************************************************************)
(* C10: the operand of the POP_V at the end of every block is the number   *)
(* of locals the block declares directly, and when that POP_V has run      *)
(* stack_top is where it was when the block was entered.                   *)
(***************************************************************************)
C10_PopVRestoresStackTop ==
    /\ \A i \in 1..Len(chunk.blocks) :
        chunk.ops[chunk.blocks[i].exit].arg = chunk.blocks[i].declared
    /\ ended # NoBlock => ended.count = ended.declared /\ ended.after = ended.before

\* The first half alone: the operand is the number of direct locals.
C10_PopVCountsDirectLocals ==
    \A i \in 1..Len(chunk.blocks) :
        chunk.ops[chunk.blocks[i].exit].arg = chunk.blocks[i].declared

\* C11: after successful validation every primary that refers to a local
\* of the function it is in has an index smaller than the frame size of
\* that function, the formal parameters of every function body are
\* numbered from slot 0, and every primary that refers to a global has
\* is_global set and an index smaller than the number of globals.
Validated == spc = "analysis" /\ vok

ParametersFromZero ==
    \A k \in 1..Len(scopes) : \A i \in 1..Len(scopes[k].argv) :
        Lookup(scopes[k], scopes[k].argv[i]).index = i - 1

RefersToGlobal == prim.level = 1

RefersToLocal == prim.level > 1 /\ prim.level >= prim.own

C11_SlotIndices ==
    Validated =>
        /\ ParametersFromZero
        /\ RefersToGlobal => prim.is_global /\ prim.index < scopes[1].count
        /\ RefersToLocal => ~prim.is_global /\ prim.index < prim.frame

\* What holds of C11: the same for every primary that analyze_primary
\* leaves with upvalue unset, and for those the index is the symbol's slot.
C11_PlainLocals ==
    (Validated /\ ~prim.upvalue) =>
        /\ ParametersFromZero
        /\ RefersToGlobal => prim.is_global /\ prim.index < scopes[1].count
        /\ RefersToLocal =>
              ~prim.is_global /\ prim.index = prim.slot /\ prim.index < prim.frame

\* C20: inside a closure, a name found among the locals of the function
\* that immediately encloses the closure becomes an upvalue with local set
\* whose index is the slot of that local; a name found only further out
\* becomes an upvalue with local unset whose index points at the entry of
\* that name in the upvalue table of the nearest enclosing closure; the
\* names of one upvalue table are all different, and the index of the
\* primary is the index of its entry in the table.
Captured == prim.closure # 0 /\ prim.level > 1 /\ prim.level < prim.own

Entry == closures[prim.closure][prim.index + 1]

C20_Upvalues ==
    /\ spc # "crashed"
    /\ \A c \in 1..Len(closures) : \A i, j \in 1..Len(closures[c]) :
           closures[c][i].token = closures[c][j].token => i = j
    /\ (Validated /\ Captured) =>
           /\ prim.upvalue
           /\ prim.index + 1 \in 1..Len(closures[prim.closure])
           /\ Entry.token = prim.token
           /\ prim.level >= prim.parent => Entry.local /\ Entry.index = prim.slot
           /\ prim.level < prim.parent =>
                 /\ ~Entry.local
                 /\ prim.outer # 0
                 /\ Entry.index + 1 \in 1..Len(closures[prim.outer])
                 /\ closures[prim.outer][Entry.index + 1].token = prim.token

\* What holds of C20: the same for the closures declared in the body of a
\* function and not in a scope nested in it, whatever the place of the
\* primary in the closure.
DeclaredInBody == \A k \in 2..prim.own : scopes[k].root

C20_ClosuresInBodies ==
    (spc # "crashed" /\ Validated /\ Captured /\ prim.at = Len(scopes) /\ DeclaredInBody) =>
        /\ prim.upvalue
        /\ prim.index + 1 \in 1..Len(closures[prim.closure])
        /\ Entry.token = prim.token
        /\ prim.level >= prim.parent => Entry.local /\ Entry.index = prim.slot
        /\ prim.level < prim.parent =>
              /\ ~Entry.local
              /\ prim.outer # 0
              /\ Entry.index + 1 \in 1..Len(closures[prim.outer])
              /\ closures[prim.outer][Entry.index + 1].token = prim.token

\* C12: every parser error sets had_error and panic and is reported only if
\* panic was not set; synchronize in a panic leaves the parser at one of
\* Int, Float, Bool, fn, if, while, '{', '}' or the end of input with panic
\* cleared and had_error as it was; had_error is never cleared.
C12_ErrorRecovery ==
    [][/\ mtr_parser.had_error => mtr_parser'.had_error
       /\ plast' = "parser_error" =>
             /\ mtr_parser'.had_error /\ mtr_parser'.panic
             /\ mtr_parser'.reports =
                   mtr_parser.reports + (IF mtr_parser.panic THEN 0 ELSE 1)
       /\ (plast' = "synchronize" /\ mtr_parser.panic) =>
             /\ mtr_parser'.token \in SyncTokens \cup {"EOF"}
             /\ ~mtr_parser'.panic
             /\ mtr_parser'.had_error]_vars

\* What holds of C12: the same, with panic cleared by synchronize when the
\* tokens it skips are not followed by an invalid token.
InvalidSkipped ==
    \E i \in mtr_parser.next..(mtr_parser'.next - 1) : scanner[i] = "INVALID"

C12_RecoveryWithoutInvalid ==
    [][/\ mtr_parser.had_error => mtr_parser'.had_error
       /\ plast' = "parser_error" =>
             /\ mtr_parser'.had_error /\ mtr_parser'.panic
             /\ mtr_parser'.reports =
                   mtr_parser.reports + (IF mtr_parser.panic THEN 0 ELSE 1)
       /\ (plast' = "synchronize" /\ mtr_parser.panic) =>
             /\ mtr_parser'.token \in SyncTokens \cup {"EOF"}
             /\ mtr_parser'.panic = InvalidSkipped
             /\ mtr_parser'.had_error]_vars

\* C13: a function declaration with 255 parameters, a call with 255
\* arguments and an array or map literal with 255 elements parse without
\* error; each of them with 256 leaves had_error set.
ParsedFunction(n) == plast = "func_decl" /\ scanner = FuncStream(n)

ParsedStatement(n) ==
    /\ plast = "expr_stmt"
    /\ pfrom = [at |-> Len(CallStream(1)) - 5, had_error |-> FALSE]
    /\ scanner \in {CallStream(n), ArrayStream(n), MapStream(n)}

C13_ListLimits ==
    \A n \in ListSizes :
        (ParsedFunction(n) \/ ParsedStatement(n)) =>
            mtr_parser.had_error = (n > MaxArgs)

C13_Witness ==
    /\ ParsedStatement(MaxArgs + 1)
    /\ scanner = CallStream(MaxArgs + 1)
    /\ mtr_parser.had_error
    /\ mtr_parser.token = "IDENTIFIER"

\* C14: a type declaration whose struct body has no members, or whose union
\* has no variants, yields a parse error.
EmptyBody(open, close) ==
    /\ Len(scanner) >= Len(TypeHead) + 2
    /\ SubSeq(scanner, 1, Len(TypeHead) + 2) = TypeHead \o <<open, close>>

TypeParsed == plast \in {"MTR_STMT_UNION", "MTR_STMT_STRUCT", "NULL"} /\ pfrom.at = 1

C14_EmptyTypeIsError ==
    (TypeParsed /\ (EmptyBody("CURLY_L", "CURLY_R") \/ EmptyBody("SQR_L", "SQR_R"))) =>
        mtr_parser.had_error /\ mtr_parser.reports >= 1

C14_Witness ==
    /\ plast = "MTR_STMT_UNION"
    /\ scanner = TypeHead \o <<"SQR_L", "SQR_R">>
    /\ mtr_parser.had_error
    /\ ppc = "done"

\* A struct with a member and a union with a variant parse without error.
C14_MemberIsNoError ==
    (TypeParsed /\ scanner \in {TypeHead \o <<"CURLY_L", "INT", "IDENTIFIER", "SEMICOLON", "CURLY_R">>,
                                 TypeHead \o <<"SQR_L", "INT", "PIPE", "INT", "SQR_R">>}) =>
        ~mtr_parser.had_error

\* C15: a while statement is emitted as cond ; JMP_Z end ; body ; cond ;
\* JMP loop_start ; end, where the JMP lands on the JMP_Z; at run time the
\* JMP_Z pops the condition just pushed and goes to the body when it is
\* not zero and to end when it is zero; and when the loop is left
\* stack_top is where it was when the loop was entered.
LoopLayout(l) ==
    /\ l.start < l.test /\ l.test + 3 = l.body /\ l.body <= l.again
    /\ l.again + (l.test - l.start) = l.back /\ l.back + 3 = l.end
    /\ \A i \in 0..(l.test - l.start - 1) :
          (l.start + i \in DOMAIN chunk.ops) = (l.again + i \in DOMAIN chunk.ops)
    /\ \A i \in 0..(l.test - l.start - 1) :
          l.start + i \in DOMAIN chunk.ops =>
              chunk.ops[l.start + i] = chunk.ops[l.again + i]
    /\ chunk.ops[l.test].op = "JMP_Z" /\ Landing(chunk, l.test + 1) = l.end
    /\ chunk.ops[l.back].op = "JMP" /\ Landing(chunk, l.back + 1) = l.test

LoopLeft(l) == bpc \in {"running", "returned"} /\ run.ip = l.end

C15_WhileLoop ==
    \A i \in 1..Len(chunk.loops) :
        LET l == chunk.loops[i] IN
        /\ LoopLayout(l)
        /\ LoopLeft(l) => seen[l.end] = seen[l.start]

\* What holds of C15: the layout, and the steps of the JMP_Z of a loop.
C15_LoopSteps ==
    [][\A i \in 1..Len(chunk.loops) :
          LET l == chunk.loops[i] IN
          /\ LoopLayout(l)
          /\ (bpc = "running" /\ run.ip = l.test /\ run'.ip # run.ip) =>
                /\ engine'.stack_top = engine.stack_top - 1
                /\ run'.ip = IF Top(engine).v = 0 THEN l.end ELSE l.body]_vars

\* A loop with no if in its body is left with stack_top where it was.
NoIfInLoops ==
    \A k \in 1..Len(fn.body.statements) :
        LET s == fn.body.statements[k] IN
        (s.type = "MTR_STMT_WHILE" /\ s.body.type = "MTR_STMT_BLOCK") =>
            \A t \in 1..Len(s.body.statements) :
                s.body.statements[t].type # "MTR_STMT_IF"

C15_LoopsWithoutIf ==
    \A i \in 1..Len(chunk.loops) :
        LET l == chunk.loops[i] IN
        (LoopLeft(l) /\ NoIfInLoops) => seen[l.end] = seen[l.start]

\* What L && R and L || R are worth with the arguments of the frame: L when L
\* decides, else R.
RECURSIVE Worth(_, _, _)
Worth(expr, e, frame) ==
    CASE expr.type = "MTR_EXPR_PRIMARY" -> Read(e.stack, frame + expr.index).v
      [] expr.type = "MTR_EXPR_LITERAL" -> 0
      [] expr.type = "MTR_EXPR_BINARY" ->
            LET l == Worth(expr.left, e, frame) IN
            IF (expr.operator = "AND") = (l = 0) THEN l
            ELSE Worth(expr.right, e, frame)

\* L decides: it is false under &&, true under ||.
Decides(op, value) == (op = "AND") = (value = 0)

LogicAt(ip) == {i \in 1..Len(chunk.logics) : chunk.logics[i].jump = ip}

\* The operator of l has run and the code after the whole expression is next.
LogicDone(l) ==
    /\ bpc = "running"
    /\ run.ip = l.end
    /\ l.jump \in DOMAIN seen

\* One value more than before L, worth what the expression is worth, and R
\* was run if and only if L did not decide.
LogicResult(l) ==
    /\ engine.stack_top = seen[l.start] + 1
    /\ Top(engine).v = Worth(l.expr, engine, run.frame)
    /\ (l.right \in DOMAIN seen) = ~Decides(l.op, Worth(l.expr.left, engine, run.frame))

\* The step of AND or OR: L is on top; when it decides the VM jumps over R
\* and leaves L, else it pops L and R is next.
LogicStep ==
    \A i \in LogicAt(run.ip) :
        LET l == chunk.logics[i] IN
        (bpc = "running" /\ run'.ip # run.ip) =>
            IF Decides(l.op, Top(engine).v)
            THEN /\ run'.ip = l.end
                 /\ engine'.stack_top = engine.stack_top
                 /\ Top(engine') = Top(engine)
            ELSE /\ run'.ip = l.right
                 /\ engine'.stack_top = engine.stack_top - 1

\* C16: for L && R, a false L makes the VM jump over R and stay as the
\* result, a true L is popped and R's value is the result; for L || R the
\* same with true and false exchanged.  Either way exactly one value is left
\* on the stack and R is run only when L does not decide.
C16_ShortCircuit ==
    /\ [](\A i \in 1..Len(chunk.logics) :
            LogicDone(chunk.logics[i]) => LogicResult(chunk.logics[i]))
    /\ [][LogicStep]_vars

\* (a || b) && b with a and b false: the || has run its R, the && has not.
C16_Witness ==
    \E i, k \in 1..Len(chunk.logics) :
        LET l == chunk.logics[i]
            m == chunk.logics[k] IN
        /\ l.op = "AND" /\ m.op = "OR"
        /\ LogicDone(l) /\ LogicDone(m)
        /\ l.right \notin DOMAIN seen
        /\ m.right \in DOMAIN seen
        /\ LogicResult(l)

\* The instruction an argument or a callable is written as, and its length.
Emitted(expr) ==
    IF expr.type = "MTR_EXPR_PRIMARY" THEN [op |-> "GET", arg |-> expr.index]
    ELSE [op |-> "INT", arg |-> expr.value]

Length(expr) == IF expr.type = "MTR_EXPR_PRIMARY" THEN 3 ELSE 9

RECURSIVE Lengths(_, _)
Lengths(argv, n) == IF n = 0 THEN 0 ELSE Lengths(argv, n - 1) + Length(argv[n])

\* What an argument is worth in the frame of the caller.
ArgValue(expr, e, frame) ==
    IF expr.type = "MTR_EXPR_PRIMARY" THEN Read(e.stack, frame + expr.index)
    ELSE MTR_INT_VAL(expr.value)

\* The arguments one after the other from the first, the callable, CALL argc.
CallLayout(site) ==
    LET argv == site.expr.argv IN
    /\ \A i \in 1..Len(argv) :
            LET at == site.start + Lengths(argv, i - 1) IN
            at \in DOMAIN chunk.ops /\ chunk.ops[at] = Emitted(argv[i])
    /\ site.callable = site.start + Lengths(argv, Len(argv))
    /\ chunk.ops[site.callable] = Emitted(site.expr.callable)
    /\ site.call = site.callable + Length(site.expr.callable)
    /\ chunk.ops[site.call] = [op |-> "CALL", arg |-> Len(argv)]
    /\ site.end = site.call + 2

\* MTR_OP_CALL of this site has just run and the callee is at its entry.
Entered(site) ==
    /\ bpc = "called"
    /\ last.op = "CALL"
    /\ run.ip = site.end

\* The callee is the callable, it has the arguments on top of the stack and
\* frame[i] is the i-th of them.
CalleeFrame(site) ==
    LET argv == site.expr.argv
        callee == Last(calls) IN
    /\ callee.argc = Len(argv)
    /\ engine.stack_top = callee.frame + Len(argv)
    /\ callee.fn = engine.heap[ArgValue(site.expr.callable, engine, run.frame).v].chunk
    /\ \A i \in 0..(Len(argv) - 1) :
            Read(engine.stack, callee.frame + i) = ArgValue(argv[i + 1], engine, run.frame)

\* C17: a call is written as its arguments from left to right, the callable
\* and CALL argc; CALL pops the callable and invokes it with the argc
\* arguments on top of the stack, frame[i] of the callee being the i-th
\* argument for every 0 <= i < argc.
C17_Call ==
    \A k \in 1..Len(chunk.sites) :
        /\ CallLayout(chunk.sites[k])
        /\ Entered(chunk.sites[k]) => CalleeFrame(chunk.sites[k])

\* g(7, g) has been called.
C17_Witness ==
    \E k \in 1..Len(chunk.sites) :
        /\ Entered(chunk.sites[k])
        /\ chunk.sites[k].expr.argv = <<IntLiteral(7), Primary>>
        /\ CalleeFrame(chunk.sites[k])

\* The i-th top-level declaration has the name of an earlier one.
Redefines(i) == \E j \in 1..(i - 1) : ast[j].name = ast[i].name

\* global_analysis returns NULL for the i-th top-level declaration.
FailsAnalysis(i) == ast[i].k = "fn" /\ ast[i].sem # "ok"

\* C18: when a top-level declaration redefines a name of the global scope,
\* or a top-level statement fails analysis, mtr_validate returns false,
\* wherever the failing declaration stands among the others.
C18_ValidationFails ==
    validator.done =>
        ((\E i \in 1..Len(ast) : Redefines(i) \/ FailsAnalysis(i))
            => ~validator.all_ok)

\* What the code does keep: a failed analysis anywhere, and a redefinition
\* by the last declaration, make mtr_validate return false.
C18_LastLoadAndAnalysis ==
    validator.done =>
        (((\E i \in 1..Len(ast) : FailsAnalysis(i)) \/ (ast # <<>> /\ Redefines(Len(ast))))
            => ~validator.all_ok)

\* fn f, fn f, fn main all pass analysis: validation has returned true.
C18_Redefinition ==
    /\ validator.done
    /\ validator.all_ok
    /\ Len(ast) = 3
    /\ Redefines(2)

\* A branch without what analysis fills in: its type and the types of the
\* statements it holds.
Shape(stmt) ==
    IF "statements" \in DOMAIN stmt
    THEN <<stmt.type, [i \in 1..Len(stmt.statements) |-> stmt.statements[i].type]>>
    ELSE <<stmt.type>>

\* mtr_validate runs on the function in this step.
Validating == bpc = "parsed" /\ bpc' = "validated"

IfsWithElse ==
    {i \in 1..Len(fn.body.statements) :
        /\ fn.body.statements[i].type = "MTR_STMT_IF"
        /\ fn.body.statements[i].otherwise.type # "NULL"}

IfsWithoutElse ==
    {i \in 1..Len(fn.body.statements) :
        /\ fn.body.statements[i].type = "MTR_STMT_IF"
        /\ fn.body.statements[i].otherwise.type = "NULL"}

\* C19: validating an if with an else branch leaves the checked then branch
\* in the then field and stores the checked else branch in the otherwise
\* field, so that the code written runs the original then branch on a
\* non-zero condition and the original else branch on zero.
C19_IfBranchesKept ==
    [][Validating =>
        \A i \in IfsWithElse :
            /\ Shape(fn'.body.statements[i].then) = Shape(fn.body.statements[i].then)
            /\ Shape(fn'.body.statements[i].otherwise) =
                    Shape(fn.body.statements[i].otherwise)]_vars

\* What the code does keep: the else branch in otherwise, and the then
\* branch of an if without else in then.
C19_ElseAndLoneThenKept ==
    [][Validating =>
        /\ \A i \in IfsWithElse :
            Shape(fn'.body.statements[i].otherwise) =
                Shape(fn.body.statements[i].otherwise)
        /\ \A i \in IfsWithoutElse :
            Shape(fn'.body.statements[i].then) = Shape(fn.body.statements[i].then)]_vars

\* The primary stands in the body of a closure.
InClosure == prim.closure # 0 /\ prim.token # ""

\* The name is declared by the closure itself: a parameter or a local of
\* its body or of a block nested in its body.
OwnName == prim.level > 1 /\ prim.level >= prim.own

\* C30: in the body of a closure a reference to a name the closure itself
\* declares, made from the body or from a block nested in it, is a plain
\* local with upvalue unset and its own slot index; only names declared
\* outside the closure become upvalues.
C30_ClosureLocals ==
    (Validated /\ InClosure) =>
        /\ OwnName => ~prim.upvalue /\ prim.index = prim.slot
        /\ prim.upvalue => ~OwnName

\* What holds of C30: the same for references made from the validator
\* that declares the name.
C30_SameValidator ==
    (Validated /\ InClosure /\ prim.at = prim.level) =>
        /\ OwnName => ~prim.upvalue /\ prim.index = prim.slot
        /\ prim.upvalue => ~OwnName

\* Does the statement hold an if or a while whose branch or body is a
\* variable declaration standing alone, without braces?
RECURSIVE Bare(_)
Bare(stmt) ==
    CASE stmt.type = "MTR_STMT_IF" ->
            \/ stmt.then.type = "MTR_STMT_VAR" \/ stmt.otherwise.type = "MTR_STMT_VAR"
            \/ Bare(stmt.then) \/ Bare(stmt.otherwise)
      [] stmt.type = "MTR_STMT_WHILE" ->
            stmt.body.type = "MTR_STMT_VAR" \/ Bare(stmt.body)
      [] stmt.type \in {"MTR_STMT_BLOCK", "MTR_STMT_SCOPE"} ->
            \E i \in 1..Len(stmt.statements) : Bare(stmt.statements[i])
      [] OTHER -> FALSE

\* The declaration at run.ip is about to push its local: the local lands in
\* frame[index], where GET index and SET index look for it.
LocalsInSlots ==
    \A i \in 1..Len(chunk.locals) :
        run.ip = chunk.locals[i].site =>
            engine.stack_top - run.frame = chunk.locals[i].index

\* At the end of the statements of a block the stack holds what it held at
\* the start of the block and the locals the block declares.
BlocksBalanced ==
    \A i \in 1..Len(chunk.blocks) :
        (run.ip = chunk.blocks[i].exit /\ chunk.blocks[i].entry \in DOMAIN seen) =>
            engine.stack_top = seen[chunk.blocks[i].entry] + chunk.blocks[i].declared

\* C24: in a validated function, at every statement boundary stack_top -
\* frame is the number of locals in scope, so that GET n and SET n reach
\* the variable whose symbol index is n, also after an if or a while whose
\* branch or body is a single statement, not a block, declaring a variable.
C24_FrameHoldsLocals ==
    bpc = "running" => LocalsInSlots /\ BlocksBalanced

\* What holds of C24: the same for the functions in which every branch
\* and body that declares a variable is a block.
C24_BracedBranches ==
    (bpc = "running" /\ ~Bare(fn.body)) => LocalsInSlots /\ BlocksBalanced

\* The first token after the current one that is not a comment.
RECURSIVE Following(_)
Following(i) ==
    IF i > Len(scanner) THEN "EOF"
    ELSE IF scanner[i] = "COMMENT" THEN Following(i + 1)
    ELSE scanner[i]

\* The parser is at the start of the first statement of a body, at an
\* identifier.
AtStatement ==
    /\ ppc = "inside"
    /\ plast = "func_decl"
    /\ mtr_parser.token = "IDENTIFIER"

\* C21: at the start of a statement, on an identifier, the parser parses a
\* variable declaration exactly when the next token that is not a comment
\* is an identifier too, and an expression statement otherwise; the
\* lookahead consumes no input, the statement being parsed from the
\* identifier on.
C21_Lookahead ==
    [][AtStatement =>
        /\ pfrom'.at = mtr_parser.next - 1
        /\ plast' = IF Following(mtr_parser.next) = "IDENTIFIER"
                    THEN "variable" ELSE "expr_stmt"]_vars

\* What holds of C21: the same with the token that follows the
\* identifier, comment or not, in the place of the next token that is not
\* a comment.
C21_NextRawToken ==
    [][AtStatement =>
        /\ pfrom'.at = mtr_parser.next - 1
        /\ plast' = IF parser_peek(mtr_parser) = "IDENTIFIER"
                    THEN "variable" ELSE "expr_stmt"]_vars

\* The value of the local being declared is on top of the stack: the
\* literal has just been built.
LiteralBuilt(type) ==
    /\ bpc = "running"
    /\ fn.body.statements[1].value.type = type
    /\ run.ip = chunk.blocks[1].exit

Built == engine.heap[Top(engine).v]

\* C22: for an array literal [e1, ..., en] the array at run time has
\* elements[i-1] = ei for every i; for a map literal the map at run time
\* holds every key of the literal with its value (of two entries with the
\* same key, the later in the source); the children are written in reverse
\* order and the pops of the VM restore the order of the source.
C22_LiteralOrder ==
    /\ LiteralBuilt("MTR_EXPR_ARRAY_LITERAL") =>
        LET es == fn.body.statements[1].value.expressions IN
        /\ IsObj(Top(engine))
        /\ Built.type = "MTR_OBJ_ARRAY"
        /\ Built.elements = [i \in 1..Len(es) |-> MTR_INT_VAL(es[i].value)]
    /\ LiteralBuilt("MTR_EXPR_MAP_LITERAL") =>
        LET es == fn.body.statements[1].value.entries IN
        /\ IsObj(Top(engine))
        /\ Built.type = "MTR_OBJ_MAP"
        /\ DOMAIN Built.table = {MTR_INT_VAL(es[i].key.value) : i \in 1..Len(es)}
        /\ \A i \in 1..Len(es) :
            (\A j \in (i + 1)..Len(es) : es[j].key # es[i].key) =>
                mtr_map_get(Built, MTR_INT_VAL(es[i].key.value)) =
                    MTR_INT_VAL(es[i].value.value)

\* [7, 8] has been built.
C22_Witness ==
    /\ LiteralBuilt("MTR_EXPR_ARRAY_LITERAL")
    /\ Built.elements = <<MTR_INT_VAL(7), MTR_INT_VAL(8)>>

Accepted == {"MTR_DATA_INT", "MTR_DATA_FLOAT", "MTR_DATA_BOOL"}

IsConditional(stmt) == stmt.type \in {"MTR_STMT_IF", "MTR_STMT_WHILE"}

\* Every if and while analysed so far passed exactly when the type of its
\* condition is Int, Float or Bool.
ConditionsChecked ==
    \A i \in DOMAIN seen :
        IsConditional(fn.body.statements[i]) =>
            ((seen[i] = 1) = (fn.body.statements[i].condition.data \in Accepted))

BadCondition ==
    \E i \in 1..Len(fn.body.statements) :
        /\ IsConditional(fn.body.statements[i])
        /\ fn.body.statements[i].condition.data \notin Accepted

\* C23: an if or a while passes the validation of its condition exactly
\* when the type of the condition is Int, Float or Bool; a condition of
\* another type, String or Array among them, is rejected and makes
\* validation return false.
C23_Conditions ==
    /\ ConditionsChecked
    /\ (bpc # "parsed" /\ BadCondition) => bpc = "rejected"

\* What holds of C23: the test of the type, and validation never returns
\* true with a rejected condition.
C23_NeverAccepted ==
    /\ ConditionsChecked
    /\ (bpc # "parsed" /\ BadCondition) => bpc # "validated"

\* MTR_OP_CALL of this site is over and the caller goes on.
Returned(site) ==
    /\ bpc = "running"
    /\ run.ip = site.end
    /\ last.op \in {"RETURN", "END"}

\* MTR_OP_POP after the call of this site has run.
Popped(site) ==
    /\ bpc = "running"
    /\ run.ip = site.end + 1
    /\ site.end \in DOMAIN seen

\* C25: every completed call nets one value: when CALL argc is over,
\* stack_top is its value before the arguments were pushed plus one, also
\* for a Void callee whose chunk ends without RETURN; the POP that follows
\* a call statement restores the height before the call.
C25_CallNetsOne ==
    \A k \in 1..Len(chunk.sites) :
        /\ Returned(chunk.sites[k]) =>
              engine.stack_top = seen[chunk.sites[k].start] + 1
        /\ Popped(chunk.sites[k]) =>
              engine.stack_top = seen[chunk.sites[k].start]

\* What holds of C25: the same for the callees that run MTR_OP_RETURN.
C25_ReturningCallees ==
    \A k \in 1..Len(chunk.sites) :
        /\ (Returned(chunk.sites[k]) /\ last.op = "RETURN") =>
              engine.stack_top = seen[chunk.sites[k].start] + 1
        /\ (Popped(chunk.sites[k]) /\ last.op = "RETURN") =>
              engine.stack_top = seen[chunk.sites[k].start]

\* The expression of the assignment has been evaluated: MTR_OP_SET is next.
Evaluated == Fetched("SET")

\* C26: for every expression the validator accepts the code written pushes
\* exactly one value; every binary operator, on operands of every type the
\* validator admits (Int, Float, Bool; ==, !=, <= and >= among the
\* operators), is written as an opcode that pops two values and pushes one.
C26_OneValue ==
    Evaluated => engine.stack_top = seen[0] + 1

\* What holds of C26: the same when the type of the operator is Int or
\* Float, and for && and ||.
C26_NumbersAndLogic ==
    (/\ Evaluated
     /\ \/ fn.body.statements[1].expression.operator \in {"AND", "OR"}
        \/ fn.body.statements[1].expression.data \in {"MTR_DATA_INT", "MTR_DATA_FLOAT"})
        => engine.stack_top = seen[0] + 1

\* The frame of the callable that is running: of the callee inside a call,
\* else of the function called by the host.
CurrentFrame == IF bpc = "called" /\ calls # <<>> THEN Frame ELSE run.frame

\* C27: while the code written from a validated program runs, stack_top is
\* never below the base of the stack nor below the frame of the running
\* callable: no POP, POP_V, JMP_Z, literal or RETURN removes more values
\* than the running callable has pushed.
C27_StackAboveFrame ==
    bpc \in {"running", "called"} =>
        /\ engine.stack_top >= 0
        /\ engine.stack_top >= CurrentFrame

\* What holds of C27: the same as long as every call that is over has
\* left one value, as the callees that run MTR_OP_RETURN do.
C27_ReturningCallees ==
    (\A k \in 1..Len(chunk.sites) :
        chunk.sites[k].end \in DOMAIN seen =>
            seen[chunk.sites[k].end] = seen[chunk.sites[k].start] + 1)
        => C27_StackAboveFrame

\* mtr_parse has returned, or the process has ended in it.
ParsingOver == ppc \in {"done", "exited", "crashed"}

\* The index in the stream of the current token of the parser.
Position(p) == IF p.token = "EOF" THEN Len(scanner) + 1 ELSE p.next - 1

\* The step takes at least one token.
Consumes == Position(mtr_parser') > Position(mtr_parser)

\* An iteration of a loop of the parser that stays in the loop consumes:
\* of mtr_parse and of block (a declaration that returns to the loop, or
\* opens a list or a block in it), of the lists and of synchronize.
Iterates ==
    /\ (ppc = "declaration" /\ ppc' # "exited") => Consumes
    /\ (ppc = "block" /\ ppc' # "crashed" /\ ploop'.depth >= Depth) => Consumes
    /\ (ppc = "list" /\ ppc' = "list") => Consumes
    /\ (ppc = "synchronize" /\ ppc' = "synchronize") => Consumes

\* What is left to do where the parser stands, the tokens left apart:
\* nothing when parsing is over; the test of mtr_parse; in a block the
\* blocks to close; in synchronize the return to its loop; in a list the
\* rest of its statement or the body of its function.
Left ==
    CASE ParsingOver -> 0
      [] ppc = "declaration" -> 1
      [] ppc = "block" -> 3 * Depth
      [] ppc = "synchronize" -> 3 * Depth + 2
      [] ppc = "list" -> 3 * Depth + 4
      [] OTHER -> 0

\* The tokens left, then Left: a natural number.
Measure == (Len(scanner) + 1 - Position(mtr_parser)) * (3 * Len(scanner) + 8) + Left

\* Every step of mtr_parse lowers Measure.
Decreases == ppc # "idle" => Measure' < Measure

InsideBuffer(token) == token.start >= 1 /\ token.start + token.length - 1 <= scanner.nul

\* C29: the lexer never reads beyond the terminating NUL of the source
\* buffer: for every input, an unterminated string and a comment without a
\* newline at its end among them, the span of each token lies inside the
\* buffer, and once EOF has been returned every further request returns
\* EOF again and does not advance past the NUL.
C29_NoReadBeyondNul ==
    ppc \in {"scanning", "crashed"} =>
        /\ scanner.read <= scanner.nul
        /\ InsideBuffer(plast)
        /\ pfrom.type = "EOF" => (plast.type = "EOF" /\ scanner.current <= scanner.nul)

\* What holds of C29: a token of the source that is neither its end, nor a
\* comment, nor a string lies inside the buffer, and the scanner has read
\* and advanced no further than the NUL when it returns it.
C29_TokensOfTheSource ==
    (/\ ppc = "scanning"
     /\ plast.type \in {"SEMICOLON", "IDENTIFIER"}
     /\ plast.start <= scanner.nul)
        => (/\ InsideBuffer(plast)
            /\ scanner.read <= scanner.nul
            /\ scanner.current <= scanner.nul)

\* A terminated string and a comment with its newline stay inside too.
C29_Terminated ==
    (/\ ppc = "scanning"
     /\ plast.type \in {"COMMENT", "STRING_LITERAL"}
     /\ plast.start <= scanner.nul
     /\ \E c \in plast.start + 1 .. scanner.nul - 1 :
            scanner.memory[c] = (IF plast.type = "COMMENT" THEN "\n" ELSE "'"))
        => (/\ InsideBuffer(plast)
            /\ scanner.read <= scanner.nul
            /\ scanner.current <= scanner.nul)

=============================================================================
